---- MODULE Spec2Model ----
(***************************************************************************)
(* A model of the constant-evaluation queries of                           *)
(* compiler/rustc_const_eval/src/const_eval/eval_queries.rs: the three     *)
(* providers, eval_in_interpreter / eval_body_using_ecx, the validation    *)
(* worklist of const_validate_mplace, and the conversion op_to_const.      *)
(***************************************************************************)
EXTENDS Integers, Sequences, FiniteSets, TLC

(***************************************************************************)
(* Bounds of the model.                                                    *)
(***************************************************************************)
\* most iterations of the step loop for which step answers true
MaxSteps == 2
\* largest byte offset a pointer of an operand carries
MaxOffset == 1

(***************************************************************************)
(* Values: AllocIds, pointers, scalars, immediates, layouts, operands.     *)
(***************************************************************************)
\* Option<Provenance>::None
NoProv == 0

Uninit == -1

\* An allocation: its bytes (Uninit marks an uninitialized byte), its
\* mutability, the allocations its provenance map points to, and whether it
\* holds an interior-mutability cell.
Alloc(k, bs, m, rs, c) == [kind |-> k, bytes |-> bs, mutbl |-> m, refs |-> rs, cell |-> c]

\* AllocIds known before the query runs: 1 is a memory allocation (the bytes
\* of "ab"), 2 a memory allocation whose first byte is uninitialized, 3 a
\* function allocation; 4 names no global allocation (dangling).
PreAllocIds == {1, 2, 3, 4}

GlobalAllocInit == (1 :> Alloc("Memory", <<97, 98>>, "Not", {}, FALSE))
                @@ (2 :> Alloc("Memory", <<Uninit, 1>>, "Not", {}, FALSE))
                @@ (3 :> Alloc("Function", <<>>, "Not", {}, FALSE))

\* the first AllocId an evaluation creates: AllocIds are never reused
FirstFresh == Cardinality(PreAllocIds) + 1

Pointers == [prov : {NoProv} \cup PreAllocIds, off : 0..MaxOffset]

\* Scalar::Int(n) and Scalar::Ptr(ptr): a Ptr scalar always carries provenance
ScalarInt(n) == [tag |-> "Int", val |-> n, prov |-> NoProv]

ScalarPtr(a, o) == [tag |-> "Ptr", val |-> o, prov |-> a]

Scalars == {ScalarInt(0), ScalarInt(2)} \cup {ScalarPtr(a, o) : a \in PreAllocIds, o \in 0..MaxOffset}

\* second components of a pair: a length, or a pointer (a vtable)
Metas == {ScalarInt(2), ScalarPtr(3, 0)}

Abis == {"ScalarInit", "ScalarUnion", "ScalarPair", "Aggregate"}

\* what builtin_deref(false) and struct_tail_without_normalization see of the type
\* ("UnsafeCell": not a reference, and holding an interior-mutability cell)
TyKinds == {"RefSlice", "RefOther", "RawPtrSlice", "UnsafeCell", "Other"}

\* a layout: is_zst(), the ABI, and the kind of the type.  Only an aggregate
\* is zero-sized, and only a pair can be a wide reference or pointer.
Layouts ==
    { l \in [zst : BOOLEAN, abi : Abis, ty : TyKinds] :
        /\ l.zst => l.abi = "Aggregate"
        /\ l.ty \in {"RefSlice", "RefOther", "RawPtrSlice"} => l.abi = "ScalarPair"
        /\ l.ty = "UnsafeCell" => l.abi # "ScalarPair" }

\* OpTy: Left(mplace) or Right(immediate), with its layout
OpPlace(l, p) == [layout |-> l, repr |-> "Place", ptr |-> p, a |-> ScalarInt(0), b |-> ScalarInt(0)]

OpScalar(l, x) == [layout |-> l, repr |-> "Scalar", ptr |-> [prov |-> NoProv, off |-> 0], a |-> x, b |-> ScalarInt(0)]

OpScalarPair(l, x, y) == [layout |-> l, repr |-> "ScalarPair", ptr |-> [prov |-> NoProv, off |-> 0], a |-> x, b |-> y]

OpUninit(l) == [layout |-> l, repr |-> "Uninit", ptr |-> [prov |-> NoProv, off |-> 0], a |-> ScalarInt(0), b |-> ScalarInt(0)]

IsImm(op) == op.repr # "Place"

\* ConstValue, and the panic that ends a call instead of a value
ZeroSized == [tag |-> "ZeroSized"]

CvScalar(x) == [tag |-> "Scalar", x |-> x]

CvSlice(d, m) == [tag |-> "Slice", data |-> d, meta |-> m]

CvIndirect(a, o) == [tag |-> "Indirect", alloc_id |-> a, offset |-> o]

Panic(m) == [tag |-> "Panic", msg |-> m]

NoValue == [tag |-> "None"]

(***************************************************************************)
(* Reading an operand (InterpCx::read_immediate): an immediate is returned *)
(* as it is unless it is Uninit; a place is read from its allocation and   *)
(* the read fails on a pointer without provenance, a dangling or           *)
(* non-memory allocation, an out-of-bounds offset or an uninitialized byte.*)
(* Results are [ok |-> TRUE, imm |-> ...] or [ok |-> FALSE].               *)
(***************************************************************************)
ImmScalar(x) == [repr |-> "Scalar", a |-> x, b |-> ScalarInt(0)]

ImmOf(op) == [repr |-> op.repr, a |-> op.a, b |-> op.b]

ReadErr == [ok |-> FALSE, imm |-> ImmScalar(ScalarInt(0))]

ReadOk(imm) == [ok |-> TRUE, imm |-> imm]

PlaceReadable(mem, ptr) ==
    /\ ptr.prov # NoProv
    /\ ptr.prov \in DOMAIN mem
    /\ mem[ptr.prov].kind = "Memory"
    /\ ptr.off + 1 <= Len(mem[ptr.prov].bytes)
    /\ mem[ptr.prov].bytes[ptr.off + 1] # Uninit

ReadImmediate(mem, op) ==
    IF IsImm(op)
    THEN IF op.repr = "Uninit" THEN ReadErr ELSE ReadOk(ImmOf(op))
    ELSE IF PlaceReadable(mem, op.ptr)
         THEN ReadOk(ImmScalar(ScalarInt(mem[op.ptr.prov].bytes[op.ptr.off + 1])))
         ELSE ReadErr

(***************************************************************************)
(* op_to_const                                                             *)
(***************************************************************************)
\* a conversion that never forces a read
ForceNothing(layout) == FALSE

\* Abi::Scalar(abi::Scalar::Initialized { .. }) => true, _ => false
ForceAsImmediate(layout) == layout.abi = "ScalarInit"

\* a conversion of places that names the start of the allocation
PlaceToConstAtStart(ptr) ==
    IF ptr.prov = NoProv
    THEN Panic("cannot have fake place for non-ZST type")
    ELSE CvIndirect(ptr.prov, 0)

\* Left(mplace): ConstValue::Indirect from the place's pointer
PlaceToConst(ptr) ==
    IF ptr.prov = NoProv
    THEN Panic("cannot have fake place for non-ZST type")
    ELSE CvIndirect(ptr.prov, ptr.off)

\* a conversion of pairs without assert!(offset == Size::ZERO)
ScalarPairAnyOffset(galloc, dbg, ty, a, b) ==
    IF ty \notin {"RefSlice", "RefOther"}
    THEN Panic("builtin_deref(false).unwrap()")
    ELSE IF dbg /\ ty # "RefSlice"
    THEN Panic("ConstValue::Slice is for slice-tailed types only")
    ELSE IF a.prov = NoProv
    THEN Panic("slice references to the beginning of an actual allocation")
    ELSE IF a.prov \notin DOMAIN galloc \/ galloc[a.prov].kind # "Memory"
    THEN Panic("unwrap_memory")
    ELSE IF b.tag # "Int"
    THEN Panic("slice references to the beginning of an actual allocation")
    ELSE CvSlice([alloc_id |-> a.prov, bytes |-> galloc[a.prov].bytes], b.val)

\* Immediate::ScalarPair(a, b): only slice references to the start of a
\* global memory allocation become ConstValue::Slice
ScalarPairToConst(galloc, dbg, ty, a, b) ==
    IF ty \notin {"RefSlice", "RefOther"}
    THEN Panic("builtin_deref(false).unwrap()")
    ELSE IF dbg /\ ty # "RefSlice"
    THEN Panic("ConstValue::Slice is for slice-tailed types only")
    ELSE IF a.prov = NoProv
    THEN Panic("slice references to the beginning of an actual allocation")
    ELSE IF a.prov \notin DOMAIN galloc \/ galloc[a.prov].kind # "Memory"
    THEN Panic("unwrap_memory")
    ELSE IF a.val # 0
    THEN Panic("slice references to the beginning of an actual allocation")
    ELSE IF b.tag # "Int"
    THEN Panic("slice references to the beginning of an actual allocation")
    ELSE CvSlice([alloc_id |-> a.prov, bytes |-> galloc[a.prov].bytes], b.val)

\* a conversion of immediates that takes Uninit for a scalar
ImmToConstUninitAsScalar(galloc, dbg, ty, imm) ==
    CASE imm.repr = "ScalarPair" -> ScalarPairToConst(galloc, dbg, ty, imm.a, imm.b)
      [] OTHER -> CvScalar(imm.a)

\* Right(imm)
ImmToConst(galloc, dbg, ty, imm) ==
    CASE imm.repr = "Scalar" -> CvScalar(imm.a)
      [] imm.repr = "ScalarPair" -> ScalarPairToConst(galloc, dbg, ty, imm.a, imm.b)
      [] OTHER -> Panic("Uninit is not a valid value")

\* op.as_mplace_or_imm()
AsMplaceOrImm(galloc, dbg, op) ==
    IF IsImm(op)
    THEN ImmToConst(galloc, dbg, op.layout.ty, ImmOf(op))
    ELSE PlaceToConst(op.ptr)

\* InterpCx::const_val_to_op, the way back from a ConstValue to an operand
\* of the layout l: Indirect is the place at (alloc_id, offset), Scalar and
\* Slice are immediates, ZeroSized is the Uninit immediate
ConstValToOp(l, cv) ==
    CASE cv.tag = "Indirect" -> OpPlace(l, [prov |-> cv.alloc_id, off |-> cv.offset])
      [] cv.tag = "Scalar" -> OpScalar(l, cv.x)
      [] cv.tag = "Slice" -> OpScalarPair(l, ScalarPtr(cv.data.alloc_id, 0), ScalarInt(cv.meta))
      [] OTHER -> OpUninit(l)

\* op_to_const without its early return for zero-sized layouts
OpToConstNoZst(mem, galloc, dbg, op, for_diagnostics) ==
    IF op.layout.abi = "ScalarInit"
    THEN LET r == ReadImmediate(mem, op)
         IN  IF r.ok
             THEN ImmToConst(galloc, dbg, op.layout.ty, r.imm)
             ELSE IF ~for_diagnostics
             THEN Panic("normalization works on validated constants")
             ELSE AsMplaceOrImm(galloc, dbg, op)
    ELSE AsMplaceOrImm(galloc, dbg, op)

\* an op_to_const whose failed forced read panics also for diagnostics
OpToConstAlwaysStrict(mem, galloc, dbg, op, for_diagnostics) ==
    IF op.layout.zst
    THEN ZeroSized
    ELSE IF ForceAsImmediate(op.layout)
    THEN LET r == ReadImmediate(mem, op)
         IN  IF r.ok
             THEN ImmToConst(galloc, dbg, op.layout.ty, r.imm)
             ELSE Panic("normalization works on validated constants")
    ELSE AsMplaceOrImm(galloc, dbg, op)

OpToConst(mem, galloc, dbg, op, for_diagnostics) ==
    IF op.layout.zst
    THEN ZeroSized
    ELSE IF ForceAsImmediate(op.layout)
    THEN LET r == ReadImmediate(mem, op)
         IN  IF r.ok
             THEN ImmToConst(galloc, dbg, op.layout.ty, r.imm)
             ELSE IF ~for_diagnostics
             THEN Panic("normalization works on validated constants")
             ELSE AsMplaceOrImm(galloc, dbg, op)
    ELSE AsMplaceOrImm(galloc, dbg, op)

(***************************************************************************)
(* The evaluation key and its collaborators' answers.                      *)
(***************************************************************************)
\* the kinds eval_body_using_ecx accepts, and "Fn" for every other kind
AllowedDefKinds == {"Const", "Static", "ConstParam", "AnonConst", "InlineConst", "AssocConst"}

DefKinds == AllowedDefKinds \cup {"Fn"}

\* ParamEnvAnd<GlobalId>: the definition (its kind, and mutability when it is
\* a static), the promoted ordinal, whether instance.def is an intrinsic,
\* whether instance.args is non-empty, and the environment's reveal mode.
Keys ==
    { k \in [kind : DefKinds, mutbl : {"Not", "Mut"}, promoted : BOOLEAN,
             intrinsic : BOOLEAN, hasArgs : BOOLEAN, reveal : {"All", "UserFacing"}] :
        /\ k.kind # "Static" => k.mutbl = "Not"
        /\ k.kind = "Static" => ~k.hasArgs
        /\ k.intrinsic => (k.kind = "Fn" /\ ~k.promoted) }

\* tcx.is_static(def_id)
IsStatic(k) == k.kind = "Static"

\* tcx.static_mutability(def_id): Some(m) for a static, None otherwise
StaticMutability(k) == IF k.kind = "Static" THEN k.mutbl ELSE "None"

Entries == {"eval_to_const_value_raw", "eval_to_allocation_raw", "eval_static_initializer",
            "turn_into_const_value", "op_to_const", "mk_eval_cx_for_const_val",
            "const_report_error"}

\* the layouts of a constant's result: unit, an initialized scalar, a scalar
\* that may be uninit, a wide reference, an aggregate, a cell
ResultLayouts ==
    { [zst |-> TRUE, abi |-> "Aggregate", ty |-> "Other"],
      [zst |-> FALSE, abi |-> "ScalarInit", ty |-> "Other"],
      [zst |-> FALSE, abi |-> "ScalarUnion", ty |-> "Other"],
      [zst |-> FALSE, abi |-> "ScalarPair", ty |-> "RefSlice"],
      [zst |-> FALSE, abi |-> "Aggregate", ty |-> "Other"],
      [zst |-> FALSE, abi |-> "Aggregate", ty |-> "UnsafeCell"] }

\* operands op_to_const can be handed: a place of any layout, and the
\* immediates that fit the layout (any immediate for a zero-sized layout)
Operands ==
    {OpPlace(l, p) : l \in Layouts, p \in Pointers}
    \cup {OpUninit(l) : l \in Layouts}
    \cup {OpScalar(l, x) : l \in {y \in Layouts : y.zst \/ y.abi \in {"ScalarInit", "ScalarUnion"}},
                           x \in Scalars}
    \cup {OpScalarPair(l, x, y) : l \in {z \in Layouts : z.zst \/ z.abi = "ScalarPair"},
                                  x \in Scalars, y \in Metas}

VARIABLES
    entry,      \* the function the caller invoked
    key,        \* its key
    dbg,        \* cfg!(debug_assertions) of the build
    op,         \* op_to_const's operand (direct calls)
    forDiag,    \* op_to_const's for_diagnostics
    constant,   \* the ConstAlloc handed to turn_into_const_value
    pc,         \* the position in the code
    cid,        \* eval_in_interpreter's GlobalId
    ecx,        \* the InterpCx's machine configuration
    layout,     \* the layout of the return type
    internKind, \* eval_body_using_ecx's intern_kind
    ret,        \* eval_body_using_ecx's ret: the destination place
    steps,      \* iterations of the step loop so far
    lalloc,     \* ecx.memory: the allocations local to the evaluation
    galloc,     \* tcx's global allocation table
    todo,       \* ref_tracking.todo
    seen,       \* ref_tracking.seen
    inner,      \* const_validate_mplace's inner
    modes,      \* the (place, mode) pairs handed to const_validate_operand
    events,     \* the calls made so far, in order
    result,     \* what the caller receives
    evals,      \* concurrent evaluations: each one's position, memory and result
    first,      \* an earlier evaluation of the same key: its answers and what it returned
    locA,       \* panic::Location: the left operand of a comparison
    locB,       \* panic::Location: the right operand
    locOut,     \* panic::Location: what eq, cmp and partial_cmp returned
    stamp,      \* bootstrap: the stamp file of run_cargo
    deps,       \* bootstrap: run_cargo's deps, with the mtime of each file
    cargo       \* bootstrap: run_cargo's position and outcome

vars == <<entry, key, dbg, op, forDiag, constant, pc, cid, ecx, layout, internKind, ret,
          steps, lalloc, galloc, todo, seen, inner, modes, events, result,
          evals, first, locA, locB, locOut, stamp, deps, cargo>>

\* the variables of the other components of the repository, which the
\* const-eval queries leave alone
locationVars == <<locA, locB, locOut>>

bootstrapVars == <<stamp, deps, cargo>>

NoLocation == [file |-> <<>>, line |-> 0, col |-> 0]

LocationIdle == locA = NoLocation /\ locB = NoLocation /\ locOut = NoValue

BootstrapIdle == stamp = NoValue /\ deps = <<>> /\ cargo = NoValue

NoEcx == [canAccessMutGlobal |-> FALSE, checkAlignment |-> "Unset"]

NoRet == [alloc |-> NoProv, kind |-> "Unset"]

DefaultLayout == [zst |-> TRUE, abi |-> "Aggregate", ty |-> "Other"]

NoConstant == [alloc_id |-> NoProv, layout |-> DefaultLayout]

DefaultKey == [kind |-> "Const", mutbl |-> "Not", promoted |-> FALSE, intrinsic |-> FALSE,
               hasArgs |-> FALSE, reveal |-> "All"]

Ok(v) == [tag |-> "Ok", val |-> v]

\* the frame list a report is given: || (span, vec![]) for a nullary
\* intrinsic, get_span_and_frames(ecx.tcx, ecx.stack()) for the other two
Frames(report) == IF report = "NullaryIntrinsicError" THEN "vec![]" ELSE "ecx.stack()"

\* ErrorHandled, with the report that was built for it
Err(report, kind, instance, alloc) ==
    [tag |-> "Err", report |-> report, error_kind |-> kind, instance |-> instance,
     raw_bytes_of |-> alloc, frames |-> Frames(report)]

\* a report that always carries the note
ConstReportErrorAlwaysNote(class, kind, alloc_id) ==
    [tag |-> "Err", report |-> "UndefinedBehavior", error_kind |-> kind, instance |-> FALSE,
     raw_bytes_of |-> alloc_id, frames |-> Frames("UndefinedBehavior"),
     error |-> class, ub_note |-> TRUE]

\* const_report_error(ecx, error, alloc_id): errors::UndefinedBehavior with
\* ub_note = matches!(error, InterpError::UndefinedBehavior(_)).then(|| {})
\* and the raw bytes of alloc_id
ConstReportError(class, kind, alloc_id) ==
    [tag |-> "Err", report |-> "UndefinedBehavior", error_kind |-> kind, instance |-> FALSE,
     raw_bytes_of |-> alloc_id, frames |-> Frames("UndefinedBehavior"),
     error |-> class, ub_note |-> (class = "UndefinedBehavior")]

\* a ConstAlloc is the result of an evaluation that passed validation (and
\* so computed its layout): a scalar or a wide reference is initialized
ValidatedConstant(c) ==
    c.layout.abi \in {"ScalarInit", "ScalarPair"}
        => \A i \in DOMAIN GlobalAllocInit[c.alloc_id].bytes :
              GlobalAllocInit[c.alloc_id].bytes[i] # Uninit

\* the inputs each entry point reads (eval_static_initializer is given a
\* def_id only: promoted, generic arguments and intrinsics do not arise, and
\* key.reveal is the mode of the definition's own environment, which the
\* provider does not use)
InitInputs ==
    \/ /\ entry \in {"eval_to_const_value_raw", "eval_to_allocation_raw"}
       /\ key \in Keys
       /\ op = OpUninit(DefaultLayout) /\ forDiag = FALSE /\ constant = NoConstant
    \/ /\ entry = "eval_static_initializer"
       /\ key \in {k \in Keys : ~k.promoted /\ ~k.intrinsic /\ ~k.hasArgs}
       /\ op = OpUninit(DefaultLayout) /\ forDiag = FALSE /\ constant = NoConstant
    \/ /\ entry = "turn_into_const_value"
       /\ key \in {k \in Keys : ~k.intrinsic /\ k.reveal = "All"}
       /\ constant \in {c \in [alloc_id : {1, 2}, layout : ResultLayouts] : ValidatedConstant(c)}
       /\ op = OpUninit(DefaultLayout) /\ forDiag = FALSE
    \/ /\ entry = "op_to_const"
       /\ key = DefaultKey
       /\ op \in Operands /\ forDiag \in BOOLEAN /\ constant = NoConstant
    \/ /\ entry \in {"mk_eval_cx_for_const_val", "const_report_error"}
       /\ key = DefaultKey
       /\ op = OpUninit(DefaultLayout) /\ forDiag = FALSE /\ constant = NoConstant

\* cfg!(debug_assertions) changes state only through op_to_const's
\* debug_assert!, which only an immediate operand reaches
Init ==
    /\ entry \in Entries
    /\ InitInputs
    /\ IF entry = "op_to_const" THEN dbg \in BOOLEAN ELSE dbg = FALSE
    /\ pc = "entry"
    /\ cid = key
    /\ ecx = NoEcx
    /\ layout = DefaultLayout
    /\ internKind = [kind |-> "Unset", mutbl |-> "None"]
    /\ ret = NoRet
    /\ steps = 0
    /\ lalloc = <<>>
    /\ galloc = GlobalAllocInit
    /\ todo = <<>>
    /\ seen = {}
    /\ inner = FALSE
    /\ modes = <<>>
    /\ events = <<>>
    /\ result = NoValue
    /\ evals = <<>>
    /\ first = NoValue
    /\ LocationIdle
    /\ BootstrapIdle

(***************************************************************************)
(* Helpers of the pipeline.                                                *)
(***************************************************************************)
\* every call and its outcome is appended to the log
Log(e) == events' = Append(events, e)

\* the call ends: the caller receives r
Return(r) == /\ result' = r
             /\ pc' = "done"

\* an intern_kind that asks for the static before the promoted
InternKindStaticFirst(c) ==
    IF StaticMutability(c) # "None"
    THEN [kind |-> "Static", mutbl |-> StaticMutability(c)]
    ELSE IF c.promoted
         THEN [kind |-> "Promoted", mutbl |-> "None"]
         ELSE [kind |-> "Constant", mutbl |-> "None"]

\* eval_body_using_ecx: intern_kind
InternKindOf(c) ==
    IF c.promoted
    THEN [kind |-> "Promoted", mutbl |-> "None"]
    ELSE IF StaticMutability(c) # "None"
         THEN [kind |-> "Static", mutbl |-> StaticMutability(c)]
         ELSE [kind |-> "Constant", mutbl |-> "None"]

\* a destination that is always stack memory
DestKindAlwaysStack(ik) == "Stack"

\* eval_body_using_ecx: which allocator makes ret
DestKind(ik) == IF ik.kind = "Static" THEN "Static" ELSE "Stack"

\* a mode that asks for the static before the promoted
ValidationModeStaticFirst(c, inn) ==
    IF StaticMutability(c) # "None"
    THEN [mode |-> "Static", mutbl |-> StaticMutability(c), allow_immutable_unsafe_cell |-> FALSE]
    ELSE IF c.promoted
         THEN [mode |-> "Promoted", mutbl |-> "None", allow_immutable_unsafe_cell |-> FALSE]
         ELSE [mode |-> "Const", mutbl |-> "None", allow_immutable_unsafe_cell |-> ~inn]

\* a mode that never sets inner
ValidationModeNeverInner(c, inn) ==
    IF c.promoted
    THEN [mode |-> "Promoted", mutbl |-> "None", allow_immutable_unsafe_cell |-> FALSE]
    ELSE IF StaticMutability(c) # "None"
         THEN [mode |-> "Static", mutbl |-> StaticMutability(c), allow_immutable_unsafe_cell |-> FALSE]
         ELSE [mode |-> "Const", mutbl |-> "None", allow_immutable_unsafe_cell |-> TRUE]

\* const_validate_mplace: the mode of one visited place
ValidationMode(c, inn) ==
    IF c.promoted
    THEN [mode |-> "Promoted", mutbl |-> "None", allow_immutable_unsafe_cell |-> FALSE]
    ELSE IF StaticMutability(c) # "None"
         THEN [mode |-> "Static", mutbl |-> StaticMutability(c), allow_immutable_unsafe_cell |-> FALSE]
         ELSE [mode |-> "Const", mutbl |-> "None", allow_immutable_unsafe_cell |-> ~inn]

\* a report that takes the promoted of a static for a const
ErrorKindPromotedFirst(c) ==
    IF IsStatic(c) /\ ~c.promoted THEN "static"
    ELSE IF c.hasArgs THEN "const_with_path" ELSE "const"

\* eval_in_interpreter, Err arm: the kind and instance string of the report
ErrorKind(c) ==
    IF IsStatic(c) THEN "static" ELSE IF c.hasArgs THEN "const_with_path" ELSE "const"

EvalError(c) == Err("ConstEvalError", ErrorKind(c), ErrorKind(c) = "const_with_path", NoProv)

\* a context that lets only a static's own body at mutable globals
EvalCxOwnBodyOnly(c) ==
    [canAccessMutGlobal |-> IsStatic(c) /\ ~c.promoted, checkAlignment |-> "Error"]

\* InterpCx::new(.., CompileTimeInterpreter::new(can_access_mut_global, check_alignment))
EvalCx(c) == [canAccessMutGlobal |-> IsStatic(c), checkAlignment |-> "Error"]

\* a reading context that checks alignment
ReadCxChecksAlignment(can) == [canAccessMutGlobal |-> can, checkAlignment |-> "Error"]

\* mk_eval_cx_to_read_const_val
ReadCx(can) == [canAccessMutGlobal |-> can, checkAlignment |-> "No"]

\* bytes of a fresh allocation of the layout's size
SizeOf(l) == IF l.zst THEN 0 ELSE IF l.abi \in {"ScalarInit", "ScalarUnion"} THEN 1 ELSE 2

Fill(n, v) == [i \in 1..n |-> v]

MaxId(s) == CHOOSE m \in s : \A x \in s : x <= m

\* AllocIds are handed out in increasing order and never reused
FreshId == MaxId(PreAllocIds \cup DOMAIN lalloc \cup DOMAIN galloc) + 1

\* the local allocations reachable from the set s through provenance
RECURSIVE Reach(_, _)
Reach(mem, s) ==
    LET nxt == s \cup UNION {mem[a].refs \cap DOMAIN mem : a \in s \cap DOMAIN mem}
    IN  IF nxt = s THEN s ELSE Reach(mem, nxt)

\* what the interpreter sees: its own memory, then the global table
Memory == lalloc @@ galloc

pipelineVars == <<cid, ecx, layout, internKind, ret, steps, lalloc, galloc, todo, seen, inner, modes>>

inputVars == <<entry, key, dbg, op, forDiag, evals, first, locationVars, bootstrapVars>>

(***************************************************************************)
(* The providers.                                                          *)
(***************************************************************************)
\* eval_in_interpreter, up to load_mir
EnterInterpreter(c) ==
    /\ cid' = c
    /\ ecx' = EvalCx(c)
    /\ pc' = "load_mir"
    /\ result' = result

\* eval_to_allocation_raw_provider's assertion on the key
\* providers that accept every key
AnyKeyAllowed(k) == TRUE

AllocationRawAllowed(k) == k.promoted \/ ~IsStatic(k)

EveryKeyAllowed(k) == TRUE

\* turn_into_const_value's assertion on the key
ConstValueAllowed(k) == ~IsStatic(k) \/ k.promoted

\* a provider that looks for an intrinsic before it asserts the reveal mode
EvalToConstValueRawIntrinsicFirst ==
    /\ pc = "entry" /\ entry = "eval_to_const_value_raw"
    /\ UNCHANGED <<inputVars, constant, pipelineVars>>
    /\ IF key.intrinsic
       THEN /\ Log("eval_nullary_intrinsic")
            /\ \E ok \in BOOLEAN :
                 Return(IF ok THEN Ok(CvScalar(ScalarInt(2)))
                        ELSE Err("NullaryIntrinsicError", "intrinsic", FALSE, NoProv))
       ELSE IF key.reveal # "All"
       THEN Return(Panic("assert_eq!(key.param_env.reveal(), Reveal::All)")) /\ UNCHANGED events
       ELSE /\ Log("eval_to_allocation_raw")
            /\ pc' = "query_eval_to_allocation_raw"
            /\ result' = result

\* a provider that sends intrinsics through the interpreter like any key
EvalToConstValueRawNoIntrinsic ==
    /\ pc = "entry" /\ entry = "eval_to_const_value_raw"
    /\ UNCHANGED <<inputVars, constant, pipelineVars>>
    /\ IF key.reveal # "All"
       THEN Return(Panic("assert_eq!(key.param_env.reveal(), Reveal::All)")) /\ UNCHANGED events
       ELSE /\ Log("eval_to_allocation_raw")
            /\ pc' = "query_eval_to_allocation_raw"
            /\ result' = result

EvalToConstValueRawProvider ==
    /\ pc = "entry" /\ entry = "eval_to_const_value_raw"
    /\ UNCHANGED <<inputVars, constant, pipelineVars>>
    /\ IF key.reveal # "All"
       THEN Return(Panic("assert_eq!(key.param_env.reveal(), Reveal::All)")) /\ UNCHANGED events
       ELSE IF key.intrinsic
       THEN /\ Log("eval_nullary_intrinsic")
            /\ \E ok \in BOOLEAN :
                 Return(IF ok THEN Ok(CvScalar(ScalarInt(2)))
                        ELSE Err("NullaryIntrinsicError", "intrinsic", FALSE, NoProv))
       ELSE /\ Log("eval_to_allocation_raw")
            /\ pc' = "query_eval_to_allocation_raw"
            /\ result' = result

EvalToAllocationRawProvider ==
    /\ \/ pc = "entry" /\ entry = "eval_to_allocation_raw"
       \/ pc = "query_eval_to_allocation_raw"
    /\ UNCHANGED <<inputVars, constant, events>>
    /\ IF ~AllocationRawAllowed(key)
       THEN Return(Panic("assert!(key.value.promoted.is_some() || !tcx.is_static(..))"))
            /\ UNCHANGED pipelineVars
       ELSE IF key.reveal # "All"
       THEN Return(Panic("assert_eq!(key.param_env.reveal(), Reveal::All)"))
            /\ UNCHANGED pipelineVars
       ELSE /\ EnterInterpreter(key)
            /\ UNCHANGED <<layout, internKind, ret, steps, lalloc, galloc, todo, seen, inner, modes>>

EvalStaticInitializerProvider ==
    /\ pc = "entry" /\ entry = "eval_static_initializer"
    /\ UNCHANGED <<inputVars, constant, events>>
    /\ IF ~IsStatic(key)
       THEN Return(Panic("assert!(tcx.is_static(def_id.to_def_id()))"))
            /\ UNCHANGED pipelineVars
       ELSE /\ EnterInterpreter([key EXCEPT !.promoted = FALSE, !.reveal = "All"])
            /\ UNCHANGED <<layout, internKind, ret, steps, lalloc, galloc, todo, seen, inner, modes>>

(***************************************************************************)
(* eval_in_interpreter and eval_body_using_ecx, one action per call.  An   *)
(* Err of any call goes to eval_in_interpreter's Err arm, which builds the *)
(* evaluation-error report and returns it.                                 *)
(***************************************************************************)
\* ecx.load_mir(cid.instance.def, cid.promoted)
LoadMir ==
    /\ pc = "load_mir"
    /\ UNCHANGED <<inputVars, constant, pipelineVars>>
    /\ \E ok \in BOOLEAN :
         IF ok
         THEN Log("load_mir") /\ pc' = "layout_of" /\ result' = result
         ELSE Log("load_mir_err") /\ Return(EvalError(cid))

\* an eval_body_using_ecx without the assertion on the definition kind
LayoutOfAnyDefKind ==
    /\ pc = "layout_of"
    /\ UNCHANGED <<inputVars, constant, cid, ecx, internKind, ret, steps, lalloc, galloc,
                   todo, seen, inner, modes>>
    /\ \E ok \in BOOLEAN, l \in ResultLayouts, sized \in BOOLEAN :
         IF ~ok
         THEN Log("layout_of_err") /\ Return(EvalError(cid)) /\ UNCHANGED layout
         ELSE IF ~sized
         THEN Log("layout_of") /\ Return(Panic("assert!(layout.is_sized())"))
              /\ UNCHANGED layout
         ELSE Log("layout_of") /\ layout' = l /\ pc' = "allocate" /\ result' = result

\* the DefKind assertion, ecx.layout_of(..)?, assert!(layout.is_sized())
LayoutOf ==
    /\ pc = "layout_of"
    /\ UNCHANGED <<inputVars, constant, cid, ecx, internKind, ret, steps, lalloc, galloc,
                   todo, seen, inner, modes>>
    /\ IF ~(cid.promoted \/ cid.kind \in AllowedDefKinds)
       THEN Return(Panic("Unexpected DefKind")) /\ UNCHANGED <<events, layout>>
       ELSE \E ok \in BOOLEAN, l \in ResultLayouts, sized \in BOOLEAN :
              IF ~ok
              THEN Log("layout_of_err") /\ Return(EvalError(cid)) /\ UNCHANGED layout
              ELSE IF ~sized
              THEN Log("layout_of") /\ Return(Panic("assert!(layout.is_sized())"))
                   /\ UNCHANGED layout
              ELSE Log("layout_of") /\ layout' = l /\ pc' = "allocate" /\ result' = result

\* intern_kind, then create_static_alloc(..)? or ecx.allocate(layout, MemoryKind::Stack)?
AllocateDest ==
    /\ pc = "allocate"
    /\ UNCHANGED <<inputVars, constant, cid, ecx, layout, steps, galloc, todo, seen, inner, modes>>
    /\ internKind' = InternKindOf(cid)
    /\ \E ok \in BOOLEAN :
         IF ok
         THEN /\ Log(IF DestKind(InternKindOf(cid)) = "Static"
                     THEN "create_static_alloc" ELSE "allocate_stack")
              /\ ret' = [alloc |-> FreshId, kind |-> DestKind(InternKindOf(cid))]
              /\ lalloc' = (FreshId :> Alloc("Memory", Fill(SizeOf(layout), Uninit), "Mut", {},
                                            layout.ty = "UnsafeCell"))
                           @@ lalloc
              /\ pc' = "push_stack_frame"
              /\ result' = result
         ELSE /\ Log("allocate_err")
              /\ Return(EvalError(cid))
              /\ UNCHANGED <<ret, lalloc>>

\* ecx.push_stack_frame(cid.instance, body, &ret, StackPopCleanup::Root { cleanup: false })?
PushStackFrame ==
    /\ pc = "push_stack_frame"
    /\ UNCHANGED <<inputVars, constant, pipelineVars>>
    /\ \E ok \in BOOLEAN :
         IF ok
         THEN Log("push_stack_frame") /\ pc' = "storage_live" /\ result' = result
         ELSE Log("push_stack_frame_err") /\ Return(EvalError(cid))

\* ecx.storage_live_for_always_live_locals()?
StorageLive ==
    /\ pc = "storage_live"
    /\ UNCHANGED <<inputVars, constant, pipelineVars>>
    /\ \E ok \in BOOLEAN :
         IF ok
         THEN Log("storage_live") /\ pc' = "step" /\ result' = result
         ELSE Log("storage_live_err") /\ Return(EvalError(cid))

\* the pointees a step creates: a valid byte, a valid byte in a cell, an
\* invalid byte
PointeeFlavours == {[byte |-> 1, cell |-> FALSE], [byte |-> 1, cell |-> TRUE],
                    [byte |-> 2, cell |-> FALSE]}

\* what one step of the body does to the interpreter's memory: nothing, a
\* write of the destination, a new allocation that an existing one points
\* to, or a pointer between two existing allocations
StepEffects ==
    {lalloc}
    \cup {[lalloc EXCEPT ![ret.alloc].bytes = Fill(Len(@), v)] : v \in {1, 2}}
    \cup {(FreshId :> Alloc("Memory", <<f.byte>>, "Mut", {}, f.cell))
          @@ [lalloc EXCEPT ![from].refs = @ \cup {FreshId}] :
             from \in DOMAIN lalloc, f \in PointeeFlavours}
    \cup {[lalloc EXCEPT ![from].refs = @ \cup {to}] : from \in DOMAIN lalloc, to \in DOMAIN lalloc}

\* a step loop that takes an Err of step for the end of the body
StepSwallowsError ==
    /\ pc = "step"
    /\ UNCHANGED <<inputVars, constant, cid, ecx, layout, internKind, ret, galloc,
                   todo, seen, inner, modes>>
    /\ \/ /\ steps < MaxSteps
          /\ \E m \in StepEffects : lalloc' = m
          /\ steps' = steps + 1
          /\ Log("step")
          /\ pc' = "step"
          /\ result' = result
       \/ /\ \E e \in {"step_false", "step_err"} : Log(e)
          /\ pc' = "intern"
          /\ UNCHANGED <<steps, lalloc, result>>

\* while ecx.step()? {}
Step ==
    /\ pc = "step"
    /\ UNCHANGED <<inputVars, constant, cid, ecx, layout, internKind, ret, galloc,
                   todo, seen, inner, modes>>
    /\ \/ /\ steps < MaxSteps
          /\ \E m \in StepEffects : lalloc' = m
          /\ steps' = steps + 1
          /\ Log("step")
          /\ pc' = "step"
          /\ result' = result
       \/ /\ Log("step_false")
          /\ pc' = "intern"
          /\ UNCHANGED <<steps, lalloc, result>>
       \/ /\ Log("step_err")
          /\ Return(EvalError(cid))
          /\ UNCHANGED <<steps, lalloc>>

\* the mutability interning gives an allocation
InternMutability(ik, a, root) ==
    IF ik.kind = "Static" /\ a = root THEN ik.mutbl ELSE "Not"

\* an eval_body_using_ecx that returns ret without interning it
InternForgotten ==
    /\ pc = "intern"
    /\ UNCHANGED <<inputVars, constant, pipelineVars, events, result>>
    /\ pc' = "validate_start"

\* intern_const_alloc_recursive(ecx, intern_kind, &ret)?: on success every
\* allocation reachable from ret has moved to the global table, frozen
InternConstAllocRecursive ==
    /\ pc = "intern"
    /\ UNCHANGED <<inputVars, constant, cid, ecx, layout, internKind, ret, steps,
                   todo, seen, inner, modes>>
    /\ \E ok \in BOOLEAN :
         IF ok
         THEN LET moved == Reach(lalloc, {ret.alloc})
              IN  /\ Log("intern")
                  /\ galloc' = [a \in moved |->
                                  [lalloc[a] EXCEPT !.mutbl = InternMutability(internKind, a, ret.alloc)]]
                               @@ galloc
                  /\ lalloc' = [a \in DOMAIN lalloc \ moved |-> lalloc[a]]
                  /\ pc' = "validate_start"
                  /\ result' = result
         ELSE /\ Log("intern_err")
              /\ Return(EvalError(cid))
              /\ UNCHANGED <<lalloc, galloc>>

(***************************************************************************)
(* const_validate_mplace: the worklist of RefTracking.                     *)
(***************************************************************************)
\* every order in which a set can be pushed
RECURSIVE Orders(_)
Orders(s) ==
    IF s = {} THEN {<<>>}
    ELSE UNION {{<<x>> \o t : t \in Orders(s \ {x})} : x \in s}

ValidOk == [ok |-> TRUE, kind |-> "None", class |-> "None"]

\* throw_validation_failure!: a ValidationError is undefined behavior
ValidErr(k) == [ok |-> FALSE, kind |-> k, class |-> "UndefinedBehavior"]

\* ecx.const_validate_operand on one place: the root is checked against the
\* layout of the constant, a place behind a reference as a one-byte value
\* whose only valid bytes are 0 and 1; an interior-mutability cell is
\* rejected in mode Const unless allow_immutable_unsafe_cell
ConstValidateOperand(mem, place, mode, l, root) ==
    LET a == mem[place]
    IN  IF place = root /\ l.abi \in {"ScalarInit", "ScalarPair"} /\ \E i \in DOMAIN a.bytes : a.bytes[i] = Uninit
        THEN ValidErr("InvalidUninitBytes")
        ELSE IF (place # root \/ l.abi = "ScalarInit") /\ \E i \in DOMAIN a.bytes : a.bytes[i] \notin {0, 1}
        THEN ValidErr("InvalidValue")
        ELSE IF a.cell /\ mode.mode = "Const" /\ ~mode.allow_immutable_unsafe_cell
        THEN ValidErr("UnsafeCellInImmutable")
        ELSE ValidOk

\* let alloc_id = ..; let mut ref_tracking = RefTracking::new(mplace.clone()); let mut inner = false
ConstValidateStart ==
    /\ pc = "validate_start"
    /\ UNCHANGED <<inputVars, constant, cid, ecx, layout, internKind, ret, steps, lalloc, galloc,
                   modes, events, result>>
    /\ todo' = <<ret.alloc>>
    /\ seen' = {ret.alloc}
    /\ inner' = FALSE
    /\ pc' = "validate"

\* a loop that hands const_report_error the allocation of the failing place
ConstValidateVisitDumpsPlace ==
    /\ pc = "validate"
    /\ todo # <<>>
    /\ UNCHANGED <<inputVars, constant, cid, ecx, layout, internKind, ret, steps, lalloc, galloc>>
    /\ LET place == todo[Len(todo)]
           rest == SubSeq(todo, 1, Len(todo) - 1)
           mode == ValidationMode(cid, inner)
           r == ConstValidateOperand(Memory, place, mode, layout, ret.alloc)
           new == (Memory[place].refs \cap DOMAIN Memory) \ seen
       IN  /\ modes' = Append(modes, [place |-> place, mode |-> mode])
           /\ IF r.ok
              THEN /\ Log("validate")
                   /\ \E order \in Orders(new) : todo' = rest \o order
                   /\ seen' = seen \cup new
                   /\ inner' = TRUE
                   /\ pc' = "validate"
                   /\ result' = result
              ELSE /\ Log("validate_err")
                   /\ Return(ConstReportError(r.class, r.kind, place))
                   /\ todo' = rest /\ UNCHANGED <<seen, inner>>

\* a loop whose RefTracking does not remember the places it has queued
ConstValidateVisitForgetsSeen ==
    /\ pc = "validate"
    /\ todo # <<>>
    /\ UNCHANGED <<inputVars, constant, cid, ecx, layout, internKind, ret, steps, lalloc, galloc>>
    /\ LET place == todo[Len(todo)]
           rest == SubSeq(todo, 1, Len(todo) - 1)
           mode == ValidationMode(cid, inner)
           r == ConstValidateOperand(Memory, place, mode, layout, ret.alloc)
           new == Memory[place].refs \cap DOMAIN Memory
       IN  /\ modes' = Append(modes, [place |-> place, mode |-> mode])
           /\ IF r.ok
              THEN /\ Log("validate")
                   /\ \E order \in Orders(new) : todo' = rest \o order
                   /\ seen' = seen
                   /\ inner' = TRUE
                   /\ pc' = "validate"
                   /\ result' = result
              ELSE /\ Log("validate_err")
                   /\ Return(ConstReportError(r.class, r.kind, ret.alloc))
                   /\ todo' = rest /\ UNCHANGED <<seen, inner>>

\* a loop that sets inner only when the visited place had new references
ConstValidateVisitInnerByRefs ==
    /\ pc = "validate"
    /\ todo # <<>>
    /\ UNCHANGED <<inputVars, constant, cid, ecx, layout, internKind, ret, steps, lalloc, galloc>>
    /\ LET place == todo[Len(todo)]
           rest == SubSeq(todo, 1, Len(todo) - 1)
           mode == ValidationMode(cid, inner)
           r == ConstValidateOperand(Memory, place, mode, layout, ret.alloc)
           new == (Memory[place].refs \cap DOMAIN Memory) \ seen
       IN  /\ modes' = Append(modes, [place |-> place, mode |-> mode])
           /\ IF r.ok
              THEN /\ Log("validate")
                   /\ \E order \in Orders(new) : todo' = rest \o order
                   /\ seen' = seen \cup new
                   /\ inner' = (new # {})
                   /\ pc' = "validate"
                   /\ result' = result
              ELSE /\ Log("validate_err")
                   /\ Return(ConstReportError(r.class, r.kind, ret.alloc))
                   /\ todo' = rest /\ UNCHANGED <<seen, inner>>

\* const_validate_mplace as a function of the memory, the key, the layout
\* and the root: the outcomes ("Ok" or the UB kind) of the loop over every
\* order in which a visit may push the references it found
RECURSIVE ValidateOutcomes(_, _, _, _, _, _, _)
ValidateOutcomes(mem, c, l, root, td, sn, inn) ==
    IF td = <<>>
    THEN {"Ok"}
    ELSE LET place == td[Len(td)]
             rest == SubSeq(td, 1, Len(td) - 1)
             r == ConstValidateOperand(mem, place, ValidationMode(c, inn), l, root)
             new == (mem[place].refs \cap DOMAIN mem) \ sn
         IN  IF r.ok
             THEN UNION {ValidateOutcomes(mem, c, l, root, rest \o order, sn \cup new, TRUE) :
                           order \in Orders(new)}
             ELSE {r.kind}

\* one iteration of while let Some((mplace, path)) = ref_tracking.todo.pop()
ConstValidateVisit ==
    /\ pc = "validate"
    /\ todo # <<>>
    /\ UNCHANGED <<inputVars, constant, cid, ecx, layout, internKind, ret, steps, lalloc, galloc>>
    /\ LET place == todo[Len(todo)]
           rest == SubSeq(todo, 1, Len(todo) - 1)
           mode == ValidationMode(cid, inner)
           r == ConstValidateOperand(Memory, place, mode, layout, ret.alloc)
           new == (Memory[place].refs \cap DOMAIN Memory) \ seen
       IN  /\ modes' = Append(modes, [place |-> place, mode |-> mode])
           /\ IF r.ok
              THEN /\ Log("validate")
                   /\ \E order \in Orders(new) : todo' = rest \o order
                   /\ seen' = seen \cup new
                   /\ inner' = TRUE
                   /\ pc' = "validate"
                   /\ result' = result
              ELSE /\ Log("validate_err")
                   /\ Return(ConstReportError(r.class, r.kind, ret.alloc))
                   /\ todo' = rest /\ UNCHANGED <<seen, inner>>

\* a make_result that names the allocation interned last
MakeResultNamesLastInterned ==
    /\ pc = "validate"
    /\ todo = <<>>
    /\ UNCHANGED <<inputVars, pipelineVars>>
    /\ Log("make_result")
    /\ constant' = [alloc_id |-> MaxId(DOMAIN galloc), layout |-> layout]
    /\ result' = Ok([alloc_id |-> MaxId(DOMAIN galloc), layout |-> layout])
    /\ pc' = IF entry = "eval_to_const_value_raw" THEN "turn_into_const_value" ELSE "done"

\* the worklist is empty: Ok(()), then R::make_result(mplace, ecx)
MakeResult ==
    /\ pc = "validate"
    /\ todo = <<>>
    /\ UNCHANGED <<inputVars, pipelineVars>>
    /\ Log("make_result")
    /\ constant' = [alloc_id |-> ret.alloc, layout |-> layout]
    /\ result' = Ok([alloc_id |-> ret.alloc, layout |-> layout])
    /\ pc' = IF entry = "eval_to_const_value_raw" THEN "turn_into_const_value" ELSE "done"

(***************************************************************************)
(* turn_into_const_value and direct calls of op_to_const.                  *)
(***************************************************************************)
\* a panic ends the call; a value is returned as it is
Wrap(v) == IF v.tag = "Panic" THEN v ELSE Ok(v)

\* (raw_const_to_mplace fails only if the layout of the constant's type
\* cannot be computed, and the evaluation that made the constant computed it)
TurnIntoConstValue ==
    /\ \/ pc = "entry" /\ entry = "turn_into_const_value"
       \/ pc = "turn_into_const_value"
    /\ UNCHANGED <<inputVars, constant, cid, layout, internKind, ret, steps, lalloc, galloc,
                   todo, seen, inner, modes>>
    /\ ecx' = ReadCx(IsStatic(key))
    /\ IF ~ConstValueAllowed(key)
       THEN Return(Panic("the eval_to_const_value_raw query should not be used for statics"))
            /\ UNCHANGED events
       ELSE /\ Log("op_to_const")
            /\ Return(Wrap(OpToConst(galloc, galloc, dbg,
                                     OpPlace(constant.layout, [prov |-> constant.alloc_id, off |-> 0]),
                                     FALSE)))

OpToConstCall ==
    /\ pc = "entry" /\ entry = "op_to_const"
    /\ UNCHANGED <<inputVars, constant, pipelineVars>>
    /\ Log("op_to_const")
    /\ Return(OpToConst(galloc, galloc, dbg, op, forDiag))

\* the ConstValues mk_eval_cx_for_const_val is handed
ConstValues ==
    {ZeroSized, CvScalar(ScalarInt(2)), CvScalar(ScalarPtr(1, 0)), CvIndirect(1, 0),
     CvSlice([alloc_id |-> 1, bytes |-> GlobalAllocInit[1].bytes], 2)}

OptionNone == [tag |-> "Option::None"]

Some(cx, o) == [tag |-> "Some", ecx |-> cx, op |-> o]

\* mk_eval_cx_to_read_const_val(tcx.tcx, tcx.span, param_env, CanAccessMutGlobal::No)
MkEvalCx == ReadCx(FALSE)

\* mk_eval_cx_for_const_val: the context, and const_val_to_op(val, ty, None).ok()?
MkEvalCxForConstVal ==
    /\ pc = "entry" /\ entry = "mk_eval_cx_for_const_val"
    /\ UNCHANGED <<inputVars, constant, cid, layout, internKind, ret, steps, lalloc, galloc,
                   todo, seen, inner, modes>>
    /\ ecx' = MkEvalCx
    /\ Log("const_val_to_op")
    /\ \E val \in ConstValues, ty \in ResultLayouts, ok \in BOOLEAN :
         Return(IF ok THEN Some(MkEvalCx, ConstValToOp(ty, val)) ELSE OptionNone)

\* the errors a direct caller hands const_report_error
ReportedErrors ==
    {[class |-> "UndefinedBehavior", kind |-> "InvalidValue"],
     [class |-> "UndefinedBehavior", kind |-> "PointerUseAfterFree"],
     [class |-> "Unsupported", kind |-> "ReadPointerAsInt"],
     [class |-> "ResourceExhaustion", kind |-> "MemoryExhausted"]}

\* a direct call of const_report_error, on an allocation of the table
ConstReportErrorCall ==
    /\ pc = "entry" /\ entry = "const_report_error"
    /\ UNCHANGED <<inputVars, constant, pipelineVars>>
    /\ Log("const_report_error")
    /\ \E error \in ReportedErrors, alloc_id \in DOMAIN galloc :
         Return(ConstReportError(error.class, error.kind, alloc_id))

Next ==
    \/ EvalToConstValueRawProvider
    \/ EvalToAllocationRawProvider
    \/ EvalStaticInitializerProvider
    \/ LoadMir
    \/ LayoutOf
    \/ AllocateDest
    \/ PushStackFrame
    \/ StorageLive
    \/ Step
    \/ InternConstAllocRecursive
    \/ ConstValidateStart
    \/ ConstValidateVisit
    \/ MakeResult
    \/ TurnIntoConstValue
    \/ OpToConstCall
    \/ MkEvalCxForConstVal
    \/ ConstReportErrorCall

Spec == Init /\ [][Next]_vars

(***************************************************************************)
(* The call of op_to_const a finished run has made, and what it returned.  *)
(***************************************************************************)
OpReturned == pc = "done" /\ events # <<>> /\ events[Len(events)] = "op_to_const"

OpCalled ==
    IF entry = "op_to_const"
    THEN op
    ELSE OpPlace(constant.layout, [prov |-> constant.alloc_id, off |-> 0])

DiagCalled == entry = "op_to_const" /\ forDiag

\* the ConstValue returned, or the panic
OpValue == IF result.tag = "Ok" THEN result.val ELSE result

(***************************************************************************)
(* C1: an operand of zero-sized type converts to ZeroSized, whatever its   *)
(* representation (a place, also one without provenance or into a dangling *)
(* or non-memory allocation, or a Scalar, ScalarPair or Uninit immediate)  *)
(* and whatever for_diagnostics; no allocation is read or changed.         *)
(***************************************************************************)
C1_ZstIsZeroSized ==
    (OpReturned /\ OpCalled.layout.zst)
        => /\ OpValue = ZeroSized
           /\ entry \in {"op_to_const", "turn_into_const_value"} => galloc = GlobalAllocInit

\* a zero-sized place without provenance was converted for diagnostics
C1_Witness ==
    /\ OpReturned /\ entry = "op_to_const"
    /\ op.layout.zst /\ op.repr = "Place" /\ op.ptr.prov = NoProv /\ forDiag
    /\ result = ZeroSized

(***************************************************************************)
(* C2 as stated: a non-zero-sized operand of scalar ABI never converts to  *)
(* Indirect, for either for_diagnostics and either representation.  (Read  *)
(* with the narrowest sense of "scalar ABI", a single initialized scalar;  *)
(* a scalar that may be uninit is not forced either.)                      *)
(***************************************************************************)
C2_Original ==
    (OpReturned /\ ~OpCalled.layout.zst /\ OpCalled.layout.abi = "ScalarInit")
        => OpValue.tag # "Indirect"

(***************************************************************************)
(* C2 amended: a non-zero-sized operand whose ABI is a single initialized  *)
(* scalar never converts to Indirect when for_diagnostics is false (it     *)
(* converts to Scalar or the call panics); when for_diagnostics is true it *)
(* converts to Indirect only if it is a place whose forced read fails.     *)
(***************************************************************************)
C2_InitScalarNotIndirect ==
    (OpReturned /\ ~OpCalled.layout.zst /\ OpCalled.layout.abi = "ScalarInit")
        => /\ ~DiagCalled => OpValue.tag \in {"Scalar", "Panic"}
           /\ OpValue.tag = "Indirect" =>
                 /\ DiagCalled
                 /\ OpCalled.repr = "Place"
                 /\ ~PlaceReadable(galloc, OpCalled.ptr)

\* a readable place of initialized-scalar ABI was converted to a Scalar
C2_Witness ==
    /\ OpReturned /\ entry = "op_to_const"
    /\ ~op.layout.zst /\ op.layout.abi = "ScalarInit" /\ op.repr = "Place" /\ ~forDiag
    /\ result.tag = "Scalar"

(***************************************************************************)
(* C3: a request for the portable value of a static's own body             *)
(* (eval_to_const_value_raw_provider or turn_into_const_value with a       *)
(* static definition and no promoted) ends in a panic, never in Ok or      *)
(* ErrorHandled, and before any evaluation; a promoted of a static is not  *)
(* rejected by these assertions.                                           *)
(***************************************************************************)
StaticsOwnBody(k) == IsStatic(k) /\ ~k.promoted

StaticsAssertions ==
    {Panic("assert!(key.value.promoted.is_some() || !tcx.is_static(..))"),
     Panic("the eval_to_const_value_raw query should not be used for statics")}

C3_NoConstValueForStatic ==
    (entry \in {"eval_to_const_value_raw", "turn_into_const_value"} /\ pc = "done")
        => /\ StaticsOwnBody(key) => (result.tag = "Panic" /\ \A i \in DOMAIN events : events[i] = "eval_to_allocation_raw")
           /\ (IsStatic(key) /\ key.promoted) => result \notin StaticsAssertions

\* turn_into_const_value was called for a static's own body and panicked
C3_Witness ==
    /\ entry = "turn_into_const_value" /\ pc = "done"
    /\ StaticsOwnBody(key)
    /\ result = Panic("the eval_to_const_value_raw query should not be used for statics")

PlainConst(c) == ~c.promoted /\ ~IsStatic(c)

Validated == \E i \in DOMAIN events : events[i] = "make_result"

C5_CellOnlyAtRoot ==
    PlainConst(cid) =>
        /\ \A i \in DOMAIN modes :
             /\ modes[i].mode.mode = "Const"
             /\ modes[i].mode.allow_immutable_unsafe_cell <=> (i = 1)
             /\ (modes[i].place = ret.alloc) <=> (i = 1)
        /\ Validated => \A i \in DOMAIN modes : Memory[modes[i].place].cell => (i = 1)

\* a plain const with a cell in its root and a pointee behind it validated
C5_Witness ==
    /\ PlainConst(cid) /\ Validated
    /\ Len(modes) >= 2
    /\ Memory[ret.alloc].cell

(***************************************************************************)
(* C6: every visited place is validated in mode Promoted when key.promoted *)
(* is set (also for a static), else Static{mutbl} with the static's        *)
(* mutability when the definition is a static, else Const; in modes        *)
(* Promoted and Static every place of a run gets the same mode.            *)
(***************************************************************************)
C6_ModeByKey ==
    \A i \in DOMAIN modes :
        LET m == modes[i].mode
        IN  /\ cid.promoted => m.mode = "Promoted"
            /\ (~cid.promoted /\ IsStatic(cid)) => (m.mode = "Static" /\ m.mutbl = cid.mutbl)
            /\ (~cid.promoted /\ ~IsStatic(cid)) => m.mode = "Const"
            /\ m.mode \in {"Promoted", "Static"} => m = modes[1].mode

\* two places of a promoted inside a static were visited
C6_Witness ==
    /\ Len(modes) >= 2
    /\ cid.promoted /\ IsStatic(cid)
    /\ modes[2].mode.mode = "Promoted"

(***************************************************************************)
(* C7: the calls of eval_in_interpreter come in the order load_mir,        *)
(* layout_of, allocation of the destination, push_stack_frame,             *)
(* storage_live, step until it answers false, intern, validate (one call   *)
(* per visited place), make_result: a call is made only right after the    *)
(* call before it returned Ok, so validation starts only after interning   *)
(* returned Ok and a result is made only after the last validation         *)
(* returned Ok with the worklist empty.                                    *)
(***************************************************************************)
\* the call an event is about
CallOf(e) ==
    CASE e \in {"load_mir", "load_mir_err"} -> "load_mir"
      [] e \in {"layout_of", "layout_of_err"} -> "layout_of"
      [] e \in {"create_static_alloc", "allocate_stack", "allocate_err"} -> "allocate"
      [] e \in {"push_stack_frame", "push_stack_frame_err"} -> "push_stack_frame"
      [] e \in {"storage_live", "storage_live_err"} -> "storage_live"
      [] e \in {"step", "step_false", "step_err"} -> "step"
      [] e \in {"intern", "intern_err"} -> "intern"
      [] e \in {"validate", "validate_err"} -> "validate"
      [] OTHER -> e

IsErrEvent(e) ==
    e \in {"load_mir_err", "layout_of_err", "allocate_err", "push_stack_frame_err",
           "storage_live_err", "step_err", "intern_err", "validate_err"}

\* the event d may directly follow the event e
MayFollow(e, d) ==
    CASE e = "eval_to_allocation_raw" -> CallOf(d) = "load_mir"
      [] e = "load_mir" -> CallOf(d) = "layout_of"
      [] e = "layout_of" -> CallOf(d) = "allocate"
      [] e \in {"create_static_alloc", "allocate_stack"} -> CallOf(d) = "push_stack_frame"
      [] e = "push_stack_frame" -> CallOf(d) = "storage_live"
      [] e \in {"storage_live", "step"} -> CallOf(d) = "step"
      [] e = "step_false" -> CallOf(d) = "intern"
      [] e \in {"intern", "validate"} -> CallOf(d) \in {"validate", "make_result"}
      [] e = "make_result" -> d = "op_to_const"
      [] OTHER -> FALSE

InterpreterEntry == entry \in {"eval_to_const_value_raw", "eval_to_allocation_raw", "eval_static_initializer"}

C7_CallOrder ==
    /\ \A i \in DOMAIN events : i > 1 => MayFollow(events[i - 1], events[i])
    /\ \A i \in DOMAIN events :
         /\ events[i] = "make_result" => (i > 1 /\ events[i - 1] = "validate")
         /\ CallOf(events[i]) = "validate" => \E j \in 1..(i - 1) : events[j] = "intern"
    /\ Validated => todo = <<>>
    /\ (InterpreterEntry /\ ~key.intrinsic /\ result.tag = "Ok") => Validated

\* a run with two steps and two visited places has made its result
C7_Witness ==
    /\ entry = "eval_to_allocation_raw" /\ pc = "done" /\ result.tag = "Ok"
    /\ steps = 2 /\ Len(modes) = 2

(***************************************************************************)
(* C8: an Err of load_mir, layout_of, the allocation of the destination,   *)
(* push_stack_frame, storage_live, a step or intern ends the run there:    *)
(* it is the last call, nothing was interned or validated, no result was   *)
(* made, and the caller receives Err with an evaluation-error report.      *)
(***************************************************************************)
C8_ErrorStops ==
    \A i \in DOMAIN events :
        (IsErrEvent(events[i]) /\ events[i] # "validate_err") =>
            /\ i = Len(events)
            /\ pc = "done"
            /\ result.tag = "Err" /\ result.report = "ConstEvalError"
            /\ modes = <<>> /\ todo = <<>>
            /\ ~Validated
            /\ galloc = GlobalAllocInit
            /\ ~\E j \in DOMAIN events : events[j] = "intern"

\* the second step of a run returned Err
C8_Witness ==
    /\ pc = "done" /\ steps = 1
    /\ events # <<>> /\ events[Len(events)] = "step_err"
    /\ result.tag = "Err"

(***************************************************************************)
(* C9: the destination is a dedicated static allocation                    *)
(* (create_static_alloc) exactly when the definition is a static and       *)
(* key.promoted is unset; for a plain const and for a promoted of a const  *)
(* or of a static it is Stack memory.                                      *)
(***************************************************************************)
C9_StaticDestination ==
    ret # NoRet =>
        /\ ret.kind \in {"Static", "Stack"}
        /\ ret.kind = "Static" <=> (IsStatic(cid) /\ ~cid.promoted)
        /\ \A i \in DOMAIN events :
             /\ events[i] = "create_static_alloc" => ret.kind = "Static"
             /\ events[i] = "allocate_stack" => ret.kind = "Stack"

\* the promoted of a static got Stack memory
C9_Witness ==
    /\ ret.kind = "Stack" /\ ret.alloc # NoProv
    /\ IsStatic(cid) /\ cid.promoted

(***************************************************************************)
(* C10: the InternKind handed to intern_const_alloc_recursive is Promoted  *)
(* iff key.promoted is set, Static(m) iff key.promoted is unset and the    *)
(* definition is a static of mutability m, and Constant iff neither;       *)
(* exactly one of the three holds for every key.                           *)
(***************************************************************************)
C10_InternKindByKey ==
    internKind.kind # "Unset" =>
        /\ internKind.kind \in {"Promoted", "Static", "Constant"}
        /\ internKind.kind = "Promoted" <=> cid.promoted
        /\ internKind.kind = "Static" <=> (~cid.promoted /\ IsStatic(cid))
        /\ internKind.kind = "Constant" <=> (~cid.promoted /\ ~IsStatic(cid))
        /\ internKind.mutbl = (IF internKind.kind = "Static" THEN cid.mutbl ELSE "None")

\* a mutable static was interned
C10_Witness ==
    /\ \E i \in DOMAIN events : events[i] = "intern"
    /\ internKind = [kind |-> "Static", mutbl |-> "Mut"]

(***************************************************************************)
(* The forced read of a finished op_to_const call failed: the type is not  *)
(* zero-sized, its ABI is a single initialized scalar, and read_immediate  *)
(* of the operand returned Err.                                            *)
(***************************************************************************)
ForcedReadFailed ==
    /\ OpReturned
    /\ ~OpCalled.layout.zst
    /\ ForceAsImmediate(OpCalled.layout)
    /\ ~ReadImmediate(galloc, OpCalled).ok

(***************************************************************************)
(* C11 as stated: when the forced read fails, op_to_const panics with      *)
(* for_diagnostics = false and does not fail with for_diagnostics = true.  *)
(***************************************************************************)
C11_Original ==
    ForcedReadFailed =>
        IF DiagCalled
        THEN OpValue.tag # "Panic"
        ELSE OpValue = Panic("normalization works on validated constants")

(***************************************************************************)
(* C11 amended: when the forced read fails, op_to_const with               *)
(* for_diagnostics = false panics ("normalization works on validated       *)
(* constants"); with for_diagnostics = true it never panics with that      *)
(* message and goes on with the representation the operand already had: a  *)
(* place with provenance converts to Indirect with its AllocId and offset, *)
(* while a place without provenance and an Uninit immediate still end in a *)
(* panic of the conversion itself.                                         *)
(***************************************************************************)
C11_ForcedReadFailure ==
    ForcedReadFailed =>
        IF ~DiagCalled
        THEN OpValue = Panic("normalization works on validated constants")
        ELSE /\ OpCalled.repr \in {"Place", "Uninit"}
             /\ (OpCalled.repr = "Place" /\ OpCalled.ptr.prov # NoProv)
                   => OpValue = CvIndirect(OpCalled.ptr.prov, OpCalled.ptr.off)
             /\ (OpCalled.repr = "Place" /\ OpCalled.ptr.prov = NoProv)
                   => OpValue = Panic("cannot have fake place for non-ZST type")
             /\ OpCalled.repr = "Uninit" => OpValue = Panic("Uninit is not a valid value")

\* a place into a non-memory allocation was converted for diagnostics
C11_Witness ==
    /\ ForcedReadFailed /\ DiagCalled
    /\ OpCalled.repr = "Place" /\ OpCalled.ptr.prov = 3
    /\ OpValue.tag = "Indirect"

(***************************************************************************)
(* C12: op_to_const returns ConstValue::Slice only for a (non-zero-sized)  *)
(* ScalarPair immediate whose first scalar is a pointer with provenance    *)
(* and offset zero; the data of the Slice is the global allocation that    *)
(* provenance names and its meta is the second scalar as a target usize.   *)
(* A non-zero-sized ScalarPair immediate whose first scalar has no         *)
(* provenance, is not a pointer, or has a non-zero offset ends in a panic. *)
(***************************************************************************)
C12_SliceFromStartOfAllocation ==
    OpReturned =>
        /\ OpValue.tag = "Slice" =>
              /\ OpCalled.repr = "ScalarPair" /\ ~OpCalled.layout.zst
              /\ OpCalled.a.tag = "Ptr" /\ OpCalled.a.prov # NoProv /\ OpCalled.a.val = 0
              /\ OpCalled.a.prov \in DOMAIN galloc
              /\ OpValue.data = [alloc_id |-> OpCalled.a.prov,
                                 bytes |-> galloc[OpCalled.a.prov].bytes]
              /\ OpCalled.b.tag = "Int" /\ OpValue.meta = OpCalled.b.val
        /\ (/\ OpCalled.repr = "ScalarPair" /\ ~OpCalled.layout.zst
            /\ (OpCalled.a.tag # "Ptr" \/ OpCalled.a.prov = NoProv \/ OpCalled.a.val # 0))
              => OpValue.tag = "Panic"

\* a wide reference to the start of a global allocation became a Slice
C12_Witness ==
    /\ OpReturned /\ entry = "op_to_const"
    /\ op.repr = "ScalarPair" /\ op.a = ScalarPtr(1, 0)
    /\ result.tag = "Slice" /\ result.data.bytes = <<97, 98>> /\ result.meta = 2

(***************************************************************************)
(* C13 as stated: an Uninit immediate handed to op_to_const ends in a      *)
(* panic for every type and either for_diagnostics.                        *)
(***************************************************************************)
C13_Original ==
    (OpReturned /\ OpCalled.repr = "Uninit") => OpValue.tag = "Panic"

(***************************************************************************)
(* C13 amended: an Uninit immediate of a non-zero-sized type ends in a     *)
(* panic for either for_diagnostics (the failed forced read when the ABI   *)
(* is a single initialized scalar and for_diagnostics is false, bug!       *)
(* otherwise); an Uninit immediate of a zero-sized type converts to        *)
(* ZeroSized.                                                              *)
(***************************************************************************)
C13_UninitOfSizedTypePanics ==
    (OpReturned /\ OpCalled.repr = "Uninit") =>
        IF OpCalled.layout.zst
        THEN OpValue = ZeroSized
        ELSE IF ForceAsImmediate(OpCalled.layout) /\ ~DiagCalled
        THEN OpValue = Panic("normalization works on validated constants")
        ELSE OpValue = Panic("Uninit is not a valid value")

\* an Uninit immediate of a sized aggregate type was converted for diagnostics
C13_Witness ==
    /\ OpReturned /\ entry = "op_to_const"
    /\ op.repr = "Uninit" /\ ~op.layout.zst /\ op.layout.abi = "Aggregate" /\ forDiag
    /\ result = Panic("Uninit is not a valid value")

(***************************************************************************)
(* A finished op_to_const call on a non-zero-sized place whose ABI is not  *)
(* a single initialized scalar: the operand is used as it is.              *)
(***************************************************************************)
UnforcedPlace ==
    /\ OpReturned
    /\ ~OpCalled.layout.zst
    /\ OpCalled.repr = "Place"
    /\ ~ForceAsImmediate(OpCalled.layout)

(***************************************************************************)
(* C14 as stated: every such place converts to Indirect with the AllocId   *)
(* and offset of the place's pointer.                                      *)
(***************************************************************************)
C14_Original ==
    UnforcedPlace => OpValue = CvIndirect(OpCalled.ptr.prov, OpCalled.ptr.off)

(***************************************************************************)
(* C14 amended: such a place converts to Indirect with exactly the AllocId *)
(* and offset of its pointer when the pointer has provenance, and ends in  *)
(* a panic when it has none; no allocation is created or changed, Slice is *)
(* never returned, and const_val_to_op of the Indirect is a place with the *)
(* same AllocId and offset.                                                *)
(***************************************************************************)
C14_PlaceKeepsIdentity ==
    UnforcedPlace =>
        /\ OpValue.tag # "Slice"
        /\ IF OpCalled.ptr.prov = NoProv
           THEN OpValue = Panic("cannot have fake place for non-ZST type")
           ELSE /\ OpValue = CvIndirect(OpCalled.ptr.prov, OpCalled.ptr.off)
                /\ ConstValToOp(OpCalled.layout, OpValue).repr = "Place"
                /\ ConstValToOp(OpCalled.layout, OpValue).ptr = OpCalled.ptr
        /\ IF entry \in {"op_to_const", "turn_into_const_value"}
           THEN galloc = GlobalAllocInit /\ lalloc = <<>>
           ELSE OpCalled.ptr.prov = ret.alloc /\ ret.alloc \in DOMAIN galloc

\* a wide reference held in a place at a non-zero offset became Indirect
C14_Witness ==
    /\ UnforcedPlace /\ entry = "op_to_const"
    /\ op.layout.abi = "ScalarPair" /\ op.ptr = [prov |-> 1, off |-> 1]
    /\ result = CvIndirect(1, 1)

(***************************************************************************)
(* The outcomes of validating the interned result of this run, over every  *)
(* traversal order; and how the validation of this run ended.              *)
(***************************************************************************)
Interned == \E i \in DOMAIN events : events[i] = "intern"

OutcomesOfRoot == ValidateOutcomes(Memory, cid, layout, ret.alloc, <<ret.alloc>>, {ret.alloc}, FALSE)

ValidationFailed == pc = "done" /\ events # <<>> /\ events[Len(events)] = "validate_err"

(***************************************************************************)
(* C15 as stated: for a fixed root and key every traversal order gives the *)
(* same outcome, success or the same UB kind.                              *)
(***************************************************************************)
C15_Original ==
    Interned => Cardinality(OutcomesOfRoot) = 1

(***************************************************************************)
(* C15 amended: validation succeeds under one traversal order iff it       *)
(* succeeds under every order, and the run succeeds exactly then; when     *)
(* validation fails, the UB kind reported is that of the first invalid     *)
(* place the order in use reaches, one of the kinds some order reports.    *)
(***************************************************************************)
C15_SuccessIsOrderIndependent ==
    Interned =>
        /\ "Ok" \in OutcomesOfRoot => OutcomesOfRoot = {"Ok"}
        /\ Validated => OutcomesOfRoot = {"Ok"}
        /\ ValidationFailed =>
              /\ "Ok" \notin OutcomesOfRoot
              /\ result.error_kind \in OutcomesOfRoot
              /\ result.error_kind = ConstValidateOperand(Memory, modes[Len(modes)].place,
                                                          modes[Len(modes)].mode, layout, ret.alloc).kind

\* a root with two pointees, which can be visited in two orders, validated
C15_Witness ==
    /\ Validated /\ Len(modes) = 3
    /\ Cardinality(Memory[ret.alloc].refs \ {ret.alloc}) = 2

(***************************************************************************)
(* C16: const_validate_mplace terminates on every finite graph, also with  *)
(* pointer cycles and shared targets: no place is visited twice and no     *)
(* visited place is on the worklist again, the worklist holds each place   *)
(* once, and the iterations made plus those still queued never exceed the  *)
(* number of places reachable from the root; while the loop runs, one of   *)
(* its two continuations (the next visit, or the end of the loop) is       *)
(* always possible.                                                        *)
(***************************************************************************)
VisitedPlaces == {modes[i].place : i \in DOMAIN modes}

QueuedPlaces == {todo[i] : i \in DOMAIN todo}

ReachablePlaces == Reach(Memory, {ret.alloc})

C16_ValidationTerminates ==
    /\ \A i, j \in DOMAIN modes : modes[i].place = modes[j].place => i = j
    /\ \A i, j \in DOMAIN todo : todo[i] = todo[j] => i = j
    /\ VisitedPlaces \cap QueuedPlaces = {}
    /\ modes # <<>> =>
          /\ VisitedPlaces \cup QueuedPlaces \subseteq seen
          /\ seen \subseteq ReachablePlaces
          /\ Len(modes) + Len(todo) <= Cardinality(ReachablePlaces)
    /\ pc = "validate" => (todo # <<>> \/ ENABLED MakeResult)

\* a root and a pointee that points back to the root were validated
C16_Witness ==
    /\ Validated /\ Len(modes) = 2
    /\ \E a \in Memory[ret.alloc].refs :
          a # ret.alloc /\ a \in DOMAIN Memory /\ ret.alloc \in Memory[a].refs

(***************************************************************************)
(* The place whose check failed: the last one handed to                    *)
(* const_validate_operand.                                                 *)
(***************************************************************************)
FailedPlace == modes[Len(modes)].place

(***************************************************************************)
(* C17 as stated: the raw-byte dump of the undefined-behavior report is of *)
(* the allocation that holds the place whose check failed, also when that  *)
(* place is not in the root's allocation.                                  *)
(***************************************************************************)
C17_Original ==
    ValidationFailed => result.raw_bytes_of = FailedPlace

(***************************************************************************)
(* C17 amended: the raw-byte dump of the undefined-behavior report is      *)
(* always of the root's allocation, the one const_validate_mplace was      *)
(* called on (an interned, global memory allocation); it is the allocation *)
(* of the failing place only when the root itself is the place that        *)
(* failed, which is the first place visited.                               *)
(***************************************************************************)
C17_DumpIsOfRoot ==
    ValidationFailed =>
        /\ result.report = "UndefinedBehavior"
        /\ result.raw_bytes_of = ret.alloc
        /\ ret.alloc \in DOMAIN galloc /\ galloc[ret.alloc].kind = "Memory"
        /\ (result.raw_bytes_of = FailedPlace) <=> (Len(modes) = 1)

\* the check of a place behind a reference failed
C17_Witness ==
    /\ ValidationFailed /\ Len(modes) = 2
    /\ FailedPlace # ret.alloc
    /\ result.raw_bytes_of = ret.alloc

(***************************************************************************)
(* C18: the evaluation-error report of eval_in_interpreter has kind        *)
(* "static" exactly when the definition of the key is a static (with or    *)
(* without key.promoted), else "const_with_path" exactly when the          *)
(* instance has generic arguments, else "const"; the instance string is    *)
(* non-empty exactly for "const_with_path".                                *)
(***************************************************************************)
EvalErrorReported == result.tag = "Err" /\ result.report = "ConstEvalError"

C18_ErrorKindByKey ==
    EvalErrorReported =>
        /\ result.error_kind \in {"static", "const_with_path", "const"}
        /\ result.error_kind = "static" <=> IsStatic(cid)
        /\ result.error_kind = "const_with_path" <=> (~IsStatic(cid) /\ cid.hasArgs)
        /\ result.error_kind = "const" <=> (~IsStatic(cid) /\ ~cid.hasArgs)
        /\ result.instance <=> (result.error_kind = "const_with_path")
        /\ IsStatic(cid) = IsStatic(key) /\ cid.hasArgs = key.hasArgs

\* the evaluation of a promoted of a static failed
C18_Witness ==
    /\ EvalErrorReported /\ pc = "done"
    /\ IsStatic(cid) /\ cid.promoted
    /\ result.error_kind = "static" /\ ~result.instance

(***************************************************************************)
(* C19: for an intrinsic instance eval_to_const_value_raw_provider makes   *)
(* no call but eval_nullary_intrinsic: eval_to_allocation_raw is not       *)
(* requested, no body is loaded, no frame pushed, nothing stepped,         *)
(* interned or validated, and (in Reveal::All mode) the result is that of  *)
(* eval_nullary_intrinsic, an Err being a NullaryIntrinsicError report     *)
(* with an empty frame list.  For every other instance the first call is   *)
(* the request of eval_to_allocation_raw and eval_nullary_intrinsic is     *)
(* never called.                                                           *)
(***************************************************************************)
PipelineUntouched ==
    /\ cid = key /\ ecx = NoEcx /\ ret = NoRet /\ steps = 0
    /\ lalloc = <<>> /\ galloc = GlobalAllocInit
    /\ todo = <<>> /\ seen = {} /\ modes = <<>>

C19_IntrinsicBypass ==
    entry = "eval_to_const_value_raw" =>
        /\ key.intrinsic =>
              /\ \A i \in DOMAIN events : events[i] = "eval_nullary_intrinsic"
              /\ PipelineUntouched
              /\ (key.reveal = "All" /\ pc = "done") =>
                    /\ events = <<"eval_nullary_intrinsic">>
                    /\ \/ result.tag = "Ok" /\ result.val.tag = "Scalar"
                       \/ /\ result.tag = "Err"
                          /\ result.report = "NullaryIntrinsicError"
                          /\ result.frames = "vec![]"
        /\ ~key.intrinsic =>
              /\ \A i \in DOMAIN events : events[i] # "eval_nullary_intrinsic"
              /\ (key.reveal = "All" /\ pc # "entry") =>
                    (events # <<>> /\ events[1] = "eval_to_allocation_raw")
              /\ result.tag = "Err" => result.frames = "ecx.stack()"

\* eval_nullary_intrinsic returned an error
C19_Witness ==
    /\ entry = "eval_to_const_value_raw" /\ key.intrinsic /\ pc = "done"
    /\ result.tag = "Err" /\ result.report = "NullaryIntrinsicError"

(***************************************************************************)
(* C20: every evaluation started through the three providers runs in       *)
(* Reveal::All mode: the interpreter, and eval_nullary_intrinsic, are      *)
(* entered only with a key whose environment reveals all;                  *)
(* eval_to_const_value_raw_provider and eval_to_allocation_raw_provider,   *)
(* given another reveal mode, end in an assertion failure before any call  *)
(* of the evaluation (also for an intrinsic), and                          *)
(* eval_static_initializer_provider enters the interpreter with            *)
(* ParamEnv::reveal_all().                                                 *)
(***************************************************************************)
EvaluationStarted == ecx.checkAlignment = "Error" \/ events # <<>>

C20_RevealAll ==
    InterpreterEntry =>
        /\ EvaluationStarted =>
              /\ cid.reveal = "All"
              /\ entry # "eval_static_initializer" => key.reveal = "All"
        /\ (entry # "eval_static_initializer" /\ key.reveal # "All" /\ pc # "entry") =>
              /\ pc = "done"
              /\ result.tag = "Panic"
              /\ events = <<>>
              /\ PipelineUntouched
        /\ (entry = "eval_to_const_value_raw" /\ key.reveal # "All" /\ pc = "done") =>
              result = Panic("assert_eq!(key.param_env.reveal(), Reveal::All)")
        /\ (entry = "eval_static_initializer" /\ pc # "entry" /\ IsStatic(key)) =>
              (ecx = EvalCx(cid) /\ cid.reveal = "All")

\* an intrinsic was requested in another reveal mode
C20_Witness ==
    /\ entry = "eval_to_const_value_raw" /\ key.intrinsic /\ key.reveal = "UserFacing"
    /\ pc = "done" /\ result = Panic("assert_eq!(key.param_env.reveal(), Reveal::All)")

(***************************************************************************)
(* C21: eval_body_using_ecx computes a layout, allocates a destination,    *)
(* pushes a frame or executes a step only if key.promoted is set or the    *)
(* definition kind is Const, Static, ConstParam, AnonConst, InlineConst or *)
(* AssocConst; for any other kind with key.promoted unset it ends in the   *)
(* panic of its assertion, not in an ErrorHandled, with no allocation made *)
(* and no call after load_mir.                                             *)
(***************************************************************************)
DefKindAccepted(c) == c.promoted \/ c.kind \in AllowedDefKinds

BodyEvents ==
    {"layout_of", "layout_of_err", "create_static_alloc", "allocate_stack", "allocate_err",
     "push_stack_frame", "push_stack_frame_err", "storage_live", "storage_live_err",
     "step", "step_false", "step_err", "intern", "intern_err"}

C21_DefKindAsserted ==
    /\ (\E i \in DOMAIN events : events[i] \in BodyEvents) => DefKindAccepted(cid)
    /\ (ret # NoRet \/ lalloc # <<>> \/ steps > 0) => DefKindAccepted(cid)
    /\ (/\ ~DefKindAccepted(cid)
        /\ events # <<>> /\ events[Len(events)] = "load_mir"
        /\ pc # "layout_of")
          => /\ pc = "done"
             /\ result = Panic("Unexpected DefKind")
             /\ ret = NoRet /\ lalloc = <<>> /\ galloc = GlobalAllocInit

\* the body of a function that is no intrinsic was requested
C21_Witness ==
    /\ entry = "eval_to_allocation_raw" /\ cid.kind = "Fn" /\ ~cid.promoted
    /\ pc = "done" /\ result = Panic("Unexpected DefKind")
    /\ events = <<"load_mir">>

(***************************************************************************)
(* Concurrent evaluations of different keys.  Each evaluation has its own  *)
(* interpreter memory; the only state they share is tcx's table of global  *)
(* allocations and the supply of AllocIds.  An evaluation allocates and    *)
(* writes in its own memory, interns what is reachable from its            *)
(* destination, and returns the destination's AllocId.                     *)
(***************************************************************************)
Evaluators == {1, 2}

MaxLocal == 2

mainVars == <<entry, key, dbg, op, forDiag, constant, pc, cid, ecx, layout, internKind, ret,
              steps, lalloc, todo, seen, inner, modes, events, result, first>>

MainIdle ==
    /\ entry = "none" /\ key = DefaultKey /\ dbg = FALSE
    /\ op = OpUninit(DefaultLayout) /\ forDiag = FALSE /\ constant = NoConstant
    /\ pc = "idle" /\ cid = DefaultKey /\ ecx = NoEcx /\ layout = DefaultLayout
    /\ internKind = [kind |-> "Unset", mutbl |-> "None"] /\ ret = NoRet /\ steps = 0
    /\ lalloc = <<>> /\ todo = <<>> /\ seen = {} /\ inner = FALSE /\ modes = <<>>
    /\ events = <<>> /\ result = NoValue /\ first = NoValue

NoEval == [pc |-> "run", mem |-> <<>>, root |-> NoProv, interned |-> <<>>, result |-> NoValue]

ConcInit ==
    /\ MainIdle /\ LocationIdle /\ BootstrapIdle
    /\ galloc = GlobalAllocInit
    /\ evals = [e \in Evaluators |-> NoEval]

\* the ids in use: in the table or in some evaluation's memory
IdsInUse == DOMAIN galloc \cup UNION {DOMAIN evals[e].mem : e \in Evaluators}

\* an id supply that looks only at the table and the evaluation's own memory
ReserveAllocIdLocally(e) ==
    FirstFresh + Cardinality((DOMAIN galloc \cup DOMAIN evals[e].mem) \ PreAllocIds)

\* tcx.reserve_alloc_id(): one supply for all evaluations, never reused
ReserveAllocId(e) == FirstFresh + Cardinality(IdsInUse \ PreAllocIds)

\* ecx.allocate / create_static_alloc: the first allocation is the
\* destination, a later one is referenced from it
ConcAllocate(e) ==
    /\ evals[e].pc = "run"
    /\ Cardinality(DOMAIN evals[e].mem) < MaxLocal
    /\ LET id == ReserveAllocId(e)
           m == evals[e].mem
       IN  \E v \in {0, 1} :
             evals' = [evals EXCEPT
                         ![e].mem = (id :> Alloc("Memory", <<v>>, "Mut", {}, FALSE))
                                    @@ (IF evals[e].root = NoProv THEN m
                                        ELSE [m EXCEPT ![evals[e].root].refs = @ \cup {id}]),
                         ![e].root = IF @ = NoProv THEN id ELSE @]
    /\ UNCHANGED <<mainVars, galloc, locationVars, bootstrapVars>>

\* a step writes one of the evaluation's own allocations
ConcWrite(e) ==
    /\ evals[e].pc = "run"
    /\ \E a \in DOMAIN evals[e].mem, v \in {0, 1} :
         /\ evals[e].mem[a].bytes # <<v>>
         /\ evals' = [evals EXCEPT ![e].mem[a].bytes = <<v>>]
    /\ UNCHANGED <<mainVars, galloc, locationVars, bootstrapVars>>

\* intern_const_alloc_recursive(ecx, intern_kind, &ret)?: what is reachable
\* from the destination moves to the table, frozen
ConcIntern(e) ==
    /\ evals[e].pc = "run"
    /\ evals[e].root # NoProv
    /\ LET moved == Reach(evals[e].mem, {evals[e].root}) \cap DOMAIN evals[e].mem
           frozen == [a \in moved |-> [evals[e].mem[a] EXCEPT !.mutbl = "Not"]]
       IN  /\ galloc' = frozen @@ galloc
           /\ evals' = [evals EXCEPT
                          ![e].mem = [a \in DOMAIN evals[e].mem \ moved |-> evals[e].mem[a]],
                          ![e].interned = frozen,
                          ![e].pc = "interned"]
    /\ UNCHANGED <<mainVars, locationVars, bootstrapVars>>

\* Ok(ret), and make_result: the handle names the destination
ConcMakeResult(e) ==
    /\ evals[e].pc = "interned"
    /\ evals' = [evals EXCEPT ![e].result = Ok([alloc_id |-> evals[e].root]), ![e].pc = "done"]
    /\ UNCHANGED <<mainVars, galloc, locationVars, bootstrapVars>>

ConcNext ==
    \E e \in Evaluators :
        \/ ConcAllocate(e)
        \/ ConcWrite(e)
        \/ ConcIntern(e)
        \/ ConcMakeResult(e)

ConcSpec == ConcInit /\ [][ConcNext]_vars

(***************************************************************************)
(* C22: under every interleaving of concurrent evaluations, an allocation  *)
(* interned under an AllocId stays in the table as it was interned (what   *)
(* was there before the evaluations included), no AllocId is used by two   *)
(* evaluations or for a second allocation, and the result of an            *)
(* evaluation names the allocation it interned, with the bytes it had when *)
(* it was interned.                                                        *)
(***************************************************************************)
IdsOf(e) == DOMAIN evals[e].mem \cup DOMAIN evals[e].interned

C22_InternAppendOnly ==
    evals # <<>> =>
        /\ \A a \in DOMAIN GlobalAllocInit : a \in DOMAIN galloc /\ galloc[a] = GlobalAllocInit[a]
        /\ \A e \in Evaluators :
             /\ \A a \in DOMAIN evals[e].interned :
                  a \in DOMAIN galloc /\ galloc[a] = evals[e].interned[a]
             /\ IdsOf(e) \cap PreAllocIds = {}
             /\ DOMAIN evals[e].mem \cap DOMAIN evals[e].interned = {}
             /\ \A f \in Evaluators \ {e} : IdsOf(e) \cap IdsOf(f) = {}
             /\ evals[e].result.tag = "Ok" =>
                  /\ evals[e].result.val.alloc_id = evals[e].root
                  /\ evals[e].root \in DOMAIN evals[e].interned
                  /\ galloc[evals[e].root].bytes = evals[e].interned[evals[e].root].bytes
                  /\ galloc[evals[e].root].mutbl = "Not"

\* two evaluations have each interned two allocations, with different bytes
C22_Witness ==
    /\ evals # <<>>
    /\ \A e \in Evaluators : evals[e].pc = "done" /\ Cardinality(DOMAIN evals[e].interned) = 2
    /\ galloc[evals[1].root].bytes # galloc[evals[2].root].bytes
    /\ evals[1].root > evals[2].root

(***************************************************************************)
(* Two evaluations of one key, one after the other: when the first has     *)
(* returned a value the query runs again on the table the first one left,  *)
(* with the same body and the same answers of the collaborators.           *)
(***************************************************************************)
\* the events that record an answer of a collaborator; the validation
\* loop, make_result and op_to_const are the pipeline's own work
IsAnswer(e) == e \notin {"validate", "validate_err", "make_result", "op_to_const"}

Answers(ev) == SelectSeq(ev, IsAnswer)

IsPrefix(s, t) == Len(s) <= Len(t) /\ SubSeq(t, 1, Len(s)) = s

\* the allocations an evaluation whose destination is root has created
CreatedSince(mem, root) == [a \in {x \in DOMAIN mem : x >= root} |-> mem[a]]

\* the body did to allocation a of this evaluation what it did to
\* allocation b of the first one, as far as it has run (whole: to its end)
SameAllocation(a, b, shift, whole) ==
    LET x == Memory[a]
        y == first.mem[b]
        refs == {r - shift : r \in x.refs}
    IN  /\ x.cell = y.cell
        /\ Len(x.bytes) = Len(y.bytes)
        /\ IF whole THEN refs = y.refs ELSE refs \subseteq y.refs
        /\ (whole \/ a # ret.alloc) => x.bytes = y.bytes

\* every answer so far is the answer the first evaluation was given
SameAnswers ==
    first # NoValue =>
        /\ IsPrefix(Answers(events), Answers(first.events))
        /\ (\E i \in DOMAIN events : events[i] = "layout_of") => layout = first.layout
        /\ key.intrinsic => result.tag \in {"None", first.result.tag}
        /\ ret.alloc # NoProv =>
             LET shift == ret.alloc - first.ret.alloc
                 mine == CreatedSince(Memory, ret.alloc)
                 whole == \E i \in DOMAIN events : events[i] \in {"step_false", "step_err"}
             IN  /\ \A a \in DOMAIN mine :
                       a - shift \in DOMAIN first.mem /\ SameAllocation(a, a - shift, shift, whole)
                 /\ whole => \A b \in DOMAIN first.mem : b + shift \in DOMAIN mine

\* the caller evaluates the key again: a new InterpCx, the same tcx
Rerun ==
    /\ pc = "done" /\ first = NoValue
    /\ result.tag = "Ok"
    /\ first' = [result |-> result, events |-> events, layout |-> layout, ret |-> ret,
                 mem |-> CreatedSince(Memory, FirstFresh), galloc |-> galloc]
    /\ pc' = "entry" /\ cid' = key /\ ecx' = NoEcx /\ layout' = DefaultLayout
    /\ internKind' = [kind |-> "Unset", mutbl |-> "None"] /\ ret' = NoRet /\ steps' = 0
    /\ lalloc' = <<>> /\ todo' = <<>> /\ seen' = {} /\ inner' = FALSE /\ modes' = <<>>
    /\ events' = <<>> /\ result' = NoValue /\ constant' = NoConstant
    /\ UNCHANGED <<entry, key, dbg, op, forDiag, galloc, evals, locationVars, bootstrapVars>>

TwiceInit == Init /\ entry = "eval_to_const_value_raw"

TwiceNext ==
    \/ EvalToConstValueRawProvider /\ SameAnswers'
    \/ EvalToAllocationRawProvider /\ SameAnswers'
    \/ LoadMir /\ SameAnswers'
    \/ LayoutOf /\ SameAnswers'
    \/ AllocateDest /\ SameAnswers'
    \/ PushStackFrame /\ SameAnswers'
    \/ StorageLive /\ SameAnswers'
    \/ Step /\ SameAnswers'
    \/ InternConstAllocRecursive /\ SameAnswers'
    \/ ConstValidateStart /\ SameAnswers'
    \/ ConstValidateVisit /\ SameAnswers'
    \/ MakeResult /\ SameAnswers'
    \/ TurnIntoConstValue /\ SameAnswers'
    \/ Rerun

TwiceSpec == TwiceInit /\ [][TwiceNext]_vars

(***************************************************************************)
(* C23: the pipeline run twice on the same key and environment, with the   *)
(* same body and the same answers of the collaborators, returns the same   *)
(* ConstValue: the same variant, the same scalar for Scalar, and for       *)
(* Indirect and Slice the same offset or length and allocations of equal   *)
(* bytes (the AllocIds may differ).                                        *)
(***************************************************************************)
SecondDone ==
    /\ first # NoValue /\ pc = "done"
    /\ Answers(events) = Answers(first.events)

SameConstValue(v, m, w, n) ==
    /\ v.tag = w.tag
    /\ v.tag = "Scalar" => v.x = w.x
    /\ v.tag = "Indirect" =>
         v.offset = w.offset /\ m[v.alloc_id].bytes = n[w.alloc_id].bytes
    /\ v.tag = "Slice" => v.meta = w.meta /\ v.data.bytes = w.data.bytes

MaxFileLen == 2

MaxLine == 2

\* bytes of a path
PathBytes == {97, 98}

Paths == UNION {[1..n -> PathBytes] : n \in 0..MaxFileLen}

\* the Locations the compiler makes: length is the length of the path
Locations == {[file |-> f, line |-> l, col |-> c, length |-> Len(f)] :
                f \in Paths, l \in 1..MaxLine, c \in 1..MaxLine}

Builds == {"bootstrap", "not_bootstrap"}

\* Location::file(): self.file, or the length bytes stored inline
LocationFile(build, loc) ==
    IF build = "bootstrap" THEN loc.file ELSE SubSeq(loc.file, 1, loc.length)

\* Ord for integers
IntCmp(x, y) == IF x < y THEN "Less" ELSE IF x > y THEN "Greater" ELSE "Equal"

\* Ord for str: the bytes up to the shorter length decide, then the lengths
RECURSIVE StrCmp(_, _)
StrCmp(s, t) ==
    IF s = <<>> \/ t = <<>>
    THEN IntCmp(Len(s), Len(t))
    ELSE IF Head(s) # Head(t)
    THEN IntCmp(Head(s), Head(t))
    ELSE StrCmp(Tail(s), Tail(t))

\* Ordering::then_with
ThenWith(o, next) == IF o = "Equal" THEN next ELSE o

\* an order that looks at the line before the file
LocationCmpLineFirst(build, a, b) ==
    ThenWith(IntCmp(a.line, b.line),
             ThenWith(StrCmp(LocationFile(build, a), LocationFile(build, b)),
                      IntCmp(a.col, b.col)))

\* Ord::cmp: derived over (file, line, col), or
\* self.file().cmp(&other.file()).then_with(line).then_with(column)
LocationCmp(build, a, b) ==
    ThenWith(StrCmp(LocationFile(build, a), LocationFile(build, b)),
             ThenWith(IntCmp(a.line, b.line), IntCmp(a.col, b.col)))

\* PartialOrd::partial_cmp: Some(self.cmp(other)); the derived one goes
\* through the fields' partial_cmp in the same order
LocationPartialCmp(build, a, b) == [tag |-> "Some", val |-> LocationCmp(build, a, b)]

\* PartialEq::eq
LocationEq(build, a, b) ==
    /\ LocationFile(build, a) = LocationFile(build, b)
    /\ a.line = b.line
    /\ a.col = b.col

LocationInit ==
    /\ MainIdle /\ BootstrapIdle
    /\ galloc = GlobalAllocInit /\ evals = <<>>
    /\ locA \in Locations /\ locB \in Locations
    /\ locOut = NoValue

CallEq ==
    /\ locOut = NoValue
    /\ \E build \in Builds :
         locOut' = [tag |-> "eq", build |-> build, val |-> LocationEq(build, locA, locB)]
    /\ UNCHANGED <<mainVars, galloc, evals, locA, locB, bootstrapVars>>

CallCmp ==
    /\ locOut = NoValue
    /\ \E build \in Builds :
         locOut' = [tag |-> "cmp", build |-> build, val |-> LocationCmp(build, locA, locB)]
    /\ UNCHANGED <<mainVars, galloc, evals, locA, locB, bootstrapVars>>

CallPartialCmp ==
    /\ locOut = NoValue
    /\ \E build \in Builds :
         locOut' = [tag |-> "partial_cmp", build |-> build,
                    val |-> LocationPartialCmp(build, locA, locB)]
    /\ UNCHANGED <<mainVars, galloc, evals, locA, locB, bootstrapVars>>

LocationNext ==
    \/ CallEq
    \/ CallCmp
    \/ CallPartialCmp

LocationSpec == LocationInit /\ [][LocationNext]_vars

(***************************************************************************)
(* C24: cmp is the lexicographic order on (file, line, column), files      *)
(* compared as strings of bytes; partial_cmp returns Some of it; and eq    *)
(* holds exactly of the pairs cmp finds Equal.                             *)
(***************************************************************************)
\* s is before t as a string: a proper prefix, or smaller at the first
\* byte where they differ
StrBefore(s, t) ==
    \/ Len(s) < Len(t) /\ \A i \in 1..Len(s) : s[i] = t[i]
    \/ \E i \in 1..Len(s) :
         /\ i <= Len(t)
         /\ s[i] < t[i]
         /\ \A j \in 1..(i - 1) : s[j] = t[j]

LocationBefore(a, b) ==
    \/ StrBefore(a.file, b.file)
    \/ a.file = b.file /\ a.line < b.line
    \/ a.file = b.file /\ a.line = b.line /\ a.col < b.col

LexOrder(a, b) ==
    IF LocationBefore(a, b) THEN "Less" ELSE IF LocationBefore(b, a) THEN "Greater" ELSE "Equal"

C24_LocationOrder ==
    /\ (locOut.tag = "cmp") => locOut.val = LexOrder(locA, locB)
    /\ (locOut.tag = "partial_cmp") =>
         locOut.val = [tag |-> "Some", val |-> LexOrder(locA, locB)]
    /\ (locOut.tag = "eq") => (locOut.val <=> (LexOrder(locA, locB) = "Equal"))

\* cmp was called on two Locations of one file whose lines and columns
\* disagree: the line decides
C24_Witness ==
    /\ locOut.tag = "cmp" /\ locOut.val = "Less"
    /\ locA.file = locB.file /\ locA.file # <<>>
    /\ locA.line < locB.line /\ locA.col > locB.col

(***************************************************************************)
(* C25: the context eval_in_interpreter builds may access mutable global   *)
(* memory exactly when the definition of the key is a static (its own body *)
(* or a promoted inside it), and the context mk_eval_cx_for_const_val      *)
(* returns never may.                                                      *)
(***************************************************************************)
\* the evaluation is inside eval_in_interpreter, with the context it built
InInterpreter ==
    pc \in {"load_mir", "layout_of", "allocate", "push_stack_frame", "storage_live", "step",
            "intern", "validate_start", "validate", "turn_into_const_value"}

C25_MutGlobalOnlyForStatics ==
    /\ InInterpreter => (ecx.canAccessMutGlobal <=> IsStatic(key))
    /\ (entry = "mk_eval_cx_for_const_val" /\ result.tag = "Some") =>
         /\ ~result.ecx.canAccessMutGlobal
         /\ ecx = result.ecx

\* the promoted of a static is being interpreted, with access to mutable
\* globals
C25_Witness ==
    /\ InInterpreter /\ pc = "step" /\ steps > 0
    /\ IsStatic(key) /\ key.promoted
    /\ ecx.canAccessMutGlobal

(***************************************************************************)
(* C26: the context that interprets a body checks alignment               *)
(* (CheckAlignment::Error); the contexts made to read a computed constant  *)
(* (turn_into_const_value, mk_eval_cx_for_const_val) do not                *)
(* (CheckAlignment::No); and a context that does not check alignment never *)
(* runs the step loop.                                                     *)
(***************************************************************************)
\* turn_into_const_value has made its context
ReadingConstant ==
    /\ pc = "done"
    /\ entry \in {"eval_to_const_value_raw", "turn_into_const_value"}
    /\ \/ events # <<>> /\ events[Len(events)] = "op_to_const"
       \/ result = Panic("the eval_to_const_value_raw query should not be used for statics")

C26_AlignmentByContext ==
    /\ InInterpreter => ecx.checkAlignment = "Error"
    /\ ReadingConstant => ecx.checkAlignment = "No"
    /\ (entry = "mk_eval_cx_for_const_val" /\ result.tag = "Some") =>
         result.ecx.checkAlignment = "No"
    /\ ecx.checkAlignment = "No" => pc = "done"

\* an evaluation that ran the step loop has handed its constant to
\* turn_into_const_value, whose context does not check alignment
C26_Witness ==
    /\ entry = "eval_to_const_value_raw" /\ ReadingConstant
    /\ steps > 0 /\ result.tag = "Ok"
    /\ ecx.checkAlignment = "No"

(***************************************************************************)
(* C27: const_validate_mplace stops at the first place whose check fails:  *)
(* every place visited before it passed, no place is taken from the        *)
(* worklist afterwards, and the result is the Err const_report_error       *)
(* built, the undefined-behavior report with the raw bytes of an           *)
(* allocation; in every report of const_report_error ub_note is present    *)
(* exactly when the error is an InterpError::UndefinedBehavior; an error   *)
(* of any call before validation (a step included) gets the                *)
(* evaluation-error report instead.                                        *)
(***************************************************************************)
CheckOf(i) ==
    ConstValidateOperand(Memory, modes[i].place, modes[i].mode, layout, ret.alloc)

C27_FirstFailureStops ==
    /\ ValidationFailed =>
         /\ \A i \in 1..(Len(modes) - 1) : CheckOf(i).ok
         /\ ~CheckOf(Len(modes)).ok
         /\ ~ENABLED ConstValidateVisit /\ ~ENABLED MakeResult
         /\ result.tag = "Err" /\ result.report = "UndefinedBehavior"
         /\ result.raw_bytes_of # NoProv
    /\ (result.tag = "Err" /\ result.report = "UndefinedBehavior") =>
         /\ result.ub_note <=> (result.error = "UndefinedBehavior")
         /\ events[Len(events)] \in {"validate_err", "const_report_error"}
    /\ (pc = "done" /\ events # <<>> /\ IsErrEvent(events[Len(events)])
          /\ events[Len(events)] # "validate_err") =>
         result.tag = "Err" /\ result.report = "ConstEvalError"

\* the check of the second place visited failed while a third place was
\* still on the worklist
C27_Witness ==
    /\ ValidationFailed /\ Len(modes) = 2 /\ todo # <<>>
    /\ result.ub_note

(***************************************************************************)
(* C28: in one run of eval_in_interpreter the InternKind used for          *)
(* interning and the mode of every validated place agree: Promoted with    *)
(* Promoted, Static(m) with Static of the same mutability, Constant with   *)
(* Const; and a key of eval_static_initializer gets a static destination,  *)
(* InternKind::Static and mode Static for every place.                     *)
(***************************************************************************)
ModeOfInternKind(ik) ==
    CASE ik.kind = "Promoted" -> "Promoted"
      [] ik.kind = "Static" -> "Static"
      [] ik.kind = "Constant" -> "Const"
      [] OTHER -> "Unset"

C28_InternKindAgreesWithMode ==
    /\ \A i \in DOMAIN modes :
         /\ modes[i].mode.mode = ModeOfInternKind(internKind)
         /\ modes[i].mode.mutbl = internKind.mutbl
    /\ (entry = "eval_static_initializer" /\ internKind.kind # "Unset") =>
         /\ internKind.kind = "Static"
         /\ ret.alloc # NoProv => ret.kind = "Static"
         /\ \A i \in DOMAIN modes : modes[i].mode.mode = "Static"

\* the promoted of a mutable static was interned as a promoted and two of
\* its places were validated as a promoted
C28_Witness ==
    /\ IsStatic(cid) /\ cid.promoted /\ cid.mutbl = "Mut"
    /\ internKind.kind = "Promoted"
    /\ Len(modes) = 2

(***************************************************************************)
(* C29: the handle a successful eval_in_interpreter returns names the      *)
(* destination: its alloc_id is the AllocId of the place that was          *)
(* allocated for the result and bound as the return place of the root      *)
(* frame, its type is the layout computed for it, and that allocation has  *)
(* been interned (it is in the global table, no longer in the              *)
(* interpreter's memory) and validated as the root (the first place        *)
(* visited) before the handle is returned.                                 *)
(***************************************************************************)
HandleReturned == \E i \in DOMAIN events : events[i] = "make_result"

\* the index of the event e in the log, 0 if it is not there
IndexOf(e) ==
    IF \E i \in DOMAIN events : events[i] = e
    THEN CHOOSE i \in DOMAIN events : events[i] = e
    ELSE 0

C29_HandleNamesDestination ==
    HandleReturned =>
        /\ constant.alloc_id = ret.alloc /\ constant.layout = layout
        /\ ret.alloc >= FirstFresh
        /\ ret.alloc \in DOMAIN galloc /\ ret.alloc \notin DOMAIN lalloc
        /\ modes # <<>> /\ modes[1].place = ret.alloc
        /\ \A i \in DOMAIN modes : i > 1 => modes[i].place # ret.alloc
        /\ 0 < IndexOf("push_stack_frame")
        /\ IndexOf("push_stack_frame") < IndexOf("intern")
        /\ IndexOf("intern") < IndexOf("make_result")
        /\ events[IndexOf("make_result") - 1] = "validate"
        /\ (entry # "eval_to_const_value_raw") =>
             result = Ok([alloc_id |-> ret.alloc, layout |-> layout])

\* the handle of a constant with a pointee was returned to the caller of
\* eval_to_allocation_raw
C29_Witness ==
    /\ HandleReturned /\ entry = "eval_to_allocation_raw" /\ pc = "done"
    /\ result.tag = "Ok" /\ result.val.alloc_id = ret.alloc
    /\ Len(modes) = 2 /\ steps = 2

(***************************************************************************)
(* bootstrap: run_cargo and the stamp file.  The dependency files cargo    *)
(* reported are collected in deps; after cargo has exited run_cargo sorts  *)
(* them, compares the list and the newest mtime with the stamp, and        *)
(* rewrites the stamp or leaves it; add_to_sysroot reads the stamp back.   *)
(***************************************************************************)
MaxDeps == 2

MaxTime == 2

\* the byte that ends a path in the stamp
NUL == 0

\* let mut max = None: None is below every Some(mtime)
NoneTime == -1

Times == 0..MaxTime

\* the files cargo can report: a, ab, b
DepPaths == {<<97>>, <<97, 98>>, <<98>>}

SeqsUpTo(s, n) == UNION {[1..k -> s] : k \in 0..n}

\* deps as collected, each file with the mtime the file system gives it
DepLists ==
    UNION {{[i \in DOMAIN l |-> [path |-> l[i], mtime |-> fs[l[i]]]] :
              l \in SeqsUpTo(DepPaths, MaxDeps)} : fs \in [DepPaths -> Times]}

\* the paths of dep and a NUL after each, in order (lines 893-894)
RECURSIVE NewContents(_)
NewContents(s) ==
    IF s = <<>> THEN <<>> ELSE Head(s).path \o <<NUL>> \o NewContents(Tail(s))

\* the stamp before the run: no file (mtime() answers some time for it), or
\* a file that lists some paths
Stamps ==
    {[exists |-> FALSE, contents |-> <<>>, mtime |-> t] : t \in Times}
    \cup {[exists |-> TRUE,
           contents |-> NewContents([i \in DOMAIN l |-> [path |-> l[i]]]),
           mtime |-> t] : l \in SeqsUpTo(DepPaths, MaxDeps), t \in Times}

\* PathBuf's order on file names
PathLe(p, q) == StrCmp(p, q) # "Greater"

\* deps.sort()
RECURSIVE InsertSorted(_, _)
InsertSorted(d, s) ==
    IF s = <<>> THEN <<d>>
    ELSE IF PathLe(d.path, Head(s).path) THEN <<d>> \o s
    ELSE <<Head(s)>> \o InsertSorted(d, Tail(s))

RECURSIVE SortDeps(_)
SortDeps(s) == IF s = <<>> THEN <<>> ELSE InsertSorted(Head(s), SortDeps(Tail(s)))

\* if Some(mtime) > max { max = Some(mtime) } over the deps
RECURSIVE MaxMtime(_, _)
MaxMtime(s, max) ==
    IF s = <<>> THEN max
    ELSE MaxMtime(Tail(s), IF Head(s).mtime > max THEN Head(s).mtime ELSE max)

\* stamp_contents == new_contents && max <= stamp_mtime
StampUpToDate(stamp_contents, new_contents, max, stamp_mtime) ==
    stamp_contents = new_contents /\ max <= stamp_mtime

\* contents.split(|b| *b == 0)
RECURSIVE SplitNul(_, _)
SplitNul(c, part) ==
    IF c = <<>> THEN <<part>>
    ELSE IF Head(c) = NUL THEN <<part>> \o SplitNul(Tail(c), <<>>)
    ELSE SplitNul(Tail(c), Append(part, Head(c)))

NonEmptyPart(part) == part # <<>>

\* the paths add_to_sysroot copies: the parts that are not empty
StampPaths(c) == SelectSeq(SplitNul(c, <<>>), NonEmptyPart)

CargoSpawned ==
    [pc |-> "spawned", prev |-> stamp, wrote |-> FALSE, msg |-> "", linked |-> <<>>]

BootstrapInit ==
    /\ MainIdle /\ LocationIdle
    /\ galloc = GlobalAllocInit /\ evals = <<>>
    /\ stamp \in Stamps
    /\ deps \in DepLists
    /\ cargo = CargoSpawned

\* child.wait(), and the panic unless status.success()
CargoWait ==
    /\ cargo.pc = "spawned"
    /\ \E success \in BOOLEAN :
         cargo' = IF success
                  THEN [cargo EXCEPT !.pc = "exited"]
                  ELSE [cargo EXCEPT !.pc = "panicked",
                                     !.msg = "command did not execute successfully"]
    /\ UNCHANGED <<mainVars, galloc, evals, locationVars, stamp, deps>>

\* lines 878-906: the stamp is left or rewritten; the write sets its mtime
\* to the time of the write
UpdateStamp ==
    /\ cargo.pc = "exited"
    /\ LET sorted == SortDeps(deps)
           stamp_contents == IF stamp.exists THEN stamp.contents ELSE <<>>
           stamp_mtime == stamp.mtime
           new_contents == NewContents(sorted)
           max == MaxMtime(sorted, NoneTime)
       IN  IF max = NoneTime
           THEN /\ cargo' = [cargo EXCEPT !.pc = "panicked", !.msg = "max.unwrap()"]
                /\ UNCHANGED stamp
           ELSE IF StampUpToDate(stamp_contents, new_contents, max, stamp_mtime)
           THEN /\ cargo' = [cargo EXCEPT !.pc = "done"]
                /\ UNCHANGED stamp
           ELSE /\ cargo' = [cargo EXCEPT !.pc = "done", !.wrote = TRUE]
                /\ \E now \in Times :
                     stamp' = [exists |-> TRUE, contents |-> new_contents, mtime |-> now]
    /\ UNCHANGED <<mainVars, galloc, evals, locationVars, deps>>

\* add_to_sysroot(sysroot_dst, stamp)
AddToSysroot ==
    /\ cargo.pc = "done"
    /\ cargo' = IF stamp.exists
                THEN [cargo EXCEPT !.pc = "linked", !.linked = StampPaths(stamp.contents)]
                ELSE [cargo EXCEPT !.pc = "panicked", !.msg = "File::open(stamp)"]
    /\ UNCHANGED <<mainVars, galloc, evals, locationVars, stamp, deps>>

BootstrapNext ==
    \/ CargoWait
    \/ UpdateStamp
    \/ AddToSysroot

BootstrapSpec == BootstrapInit /\ [][BootstrapNext]_vars

(***************************************************************************)
(* The list the claim speaks of, stated without the code's loop: paths is  *)
(* the sorted list of the paths of deps.                                   *)
(***************************************************************************)
Count(s, x) == Cardinality({i \in DOMAIN s : s[i] = x})

IsSortedListOfDeps(paths) ==
    /\ Len(paths) = Len(deps)
    /\ \A p \in DepPaths : Count(paths, p) = Count([i \in DOMAIN deps |-> deps[i].path], p)
    /\ \A i \in 1..(Len(paths) - 1) : paths[i] = paths[i + 1] \/ StrBefore(paths[i], paths[i + 1])

\* c is the NUL-terminated sorted list of the paths of deps
IsNewList(c) ==
    /\ IsSortedListOfDeps(StampPaths(c))
    /\ Cardinality({i \in DOMAIN c : c[i] = NUL}) = Len(deps)
    /\ c # <<>> => c[Len(c)] = NUL

NoDepIsNewer == \A i \in DOMAIN deps : deps[i].mtime <= cargo.prev.mtime

StampUntouched == ~cargo.wrote /\ stamp = cargo.prev

\* cargo succeeded and run_cargo is over
RunOver ==
    \/ cargo.pc \in {"done", "linked"}
    \/ cargo.pc = "panicked" /\ cargo.msg # "command did not execute successfully"

(***************************************************************************)
(* C30: after cargo succeeded the stamp is left untouched exactly when its *)
(* previous contents are the new NUL-terminated sorted list of the         *)
(* dependency paths and no dependency is newer than the stamp; otherwise   *)
(* it is rewritten to that list; and after any run the stamp's contents    *)
(* are the new list.  (The code does not do this when cargo reported no    *)
(* dependency: max.unwrap() panics before the stamp is compared.)          *)
(***************************************************************************)
C30_Original ==
    RunOver =>
        /\ StampUntouched <=> (IsNewList(cargo.prev.contents) /\ NoDepIsNewer)
        /\ IsNewList(stamp.contents)

(***************************************************************************)
(* What run_cargo does do: with at least one dependency path the stamp is  *)
(* left untouched exactly when its previous contents are the new list and  *)
(* no dependency is newer, else rewritten to exactly that list, which      *)
(* add_to_sysroot reads back as the sorted paths; with no dependency path  *)
(* run_cargo panics at max.unwrap() and leaves the stamp as it was.        *)
(***************************************************************************)
StampFollowsDeps ==
    /\ (RunOver /\ deps # <<>>) =>
         /\ cargo.pc # "panicked"
         /\ StampUntouched <=> (IsNewList(cargo.prev.contents) /\ NoDepIsNewer)
         /\ ~StampUntouched => cargo.wrote
         /\ stamp.exists /\ IsNewList(stamp.contents)
    /\ (RunOver /\ deps = <<>>) =>
         /\ cargo.pc = "panicked" /\ cargo.msg = "max.unwrap()"
         /\ StampUntouched
    /\ cargo.pc = "linked" => IsSortedListOfDeps(cargo.linked)

\* the stamp listed the two dependencies already, but one of them is newer
\* than the stamp: it was rewritten
StampRewritten ==
    /\ cargo.pc = "linked" /\ cargo.wrote
    /\ Len(deps) = 2 /\ StrBefore(deps[2].path, deps[1].path)
    /\ cargo.prev.exists /\ cargo.prev.contents = stamp.contents
    /\ ~NoDepIsNewer

====
